---- MODULE Spec2Model ----
(***************************************************************************)
(* A model of the ingestion and retrieval pipeline of the QA system:       *)
(* text_to_vector (src/app/services/file_processor.py and                  *)
(* src/file_processor.py), the AstraDB client                              *)
(* (src/app/services/astra_db.py), process_file, download_audio            *)
(* (src/app/services/youtube_processor.py) and the chat endpoint           *)
(* (src/app/core/routes.py).                                               *)
(*                                                                         *)
(* Strings of the program are sequences of one-character strings, so that  *)
(* slicing, strip(), urlparse and the regular expression are computed.     *)
(* A numpy array / list of floats is a sequence of integers (fixed point). *)
(* Python's None is the record None; a numpy array is Arr(data).           *)
(***************************************************************************)
EXTENDS Integers, Sequences, FiniteSets, TLC

VARIABLES
    sentence_model,       \* app/services/file_processor.py: the lazy singleton
    root_sentence_model,  \* file_processor.py: the handle made at import time
    vecOut,               \* the last text_to_vector call: function, text, result
    is_connected,         \* AstraDBManager.is_connected
    collection,           \* the documents of the AstraDB collection, in insertion order
    uuid_counter,         \* the number of uuid4() values drawn by store_vector
    dbOut,                \* the last call of the AstraDB manager: arguments, result
    imports,              \* which optional libraries file_processor.py imported
    procOut,              \* the last process_file call: argument, result, extractors
    dl,                   \* a running download_audio / transcribe_youtube_audio call
    astra_available,      \* vector_service.py: what the import found
    DISABLE_VECTOR_DB,    \* app.config['DISABLE_VECTOR_DB']
    langsmith_connected,  \* LangSmithMonitor.is_connected
    langsmith_runs,       \* the runs submitted to LangSmith, in order
    upload_folder,        \* the files saved in UPLOAD_FOLDER, in order
    chatOut,              \* the last chat request: the request, the response, the calls made
    monitor               \* the LLMMonitor of the process: its history, the metrics file, the last call

vecVars == <<sentence_model, root_sentence_model, vecOut>>

dbVars == <<is_connected, collection, uuid_counter, dbOut>>

procVars == <<imports, procOut>>

dlVars == <<dl>>

chatVars ==
    <<astra_available, DISABLE_VECTOR_DB, langsmith_connected, langsmith_runs,
      upload_folder, chatOut>>

monVars == <<monitor>>

vars == <<vecVars, dbVars, procVars, dlVars, chatVars, monVars>>

(***************************************************************************)
(* Values                                                                  *)
(***************************************************************************)
None == [tag |-> "None"]

Arr(data) == [tag |-> "ndarray", data |-> data]

IsNone(x) == x.tag = "None"

\* np.zeros(n)
zeros(n) == [i \in 1..n |-> 0]

\* s[a:b] of Python for 0 <= a, on a sequence (0-based, end exclusive)
Slice(s, a, b) == SubSeq(s, a + 1, IF b < Len(s) THEN b ELSE Len(s))

\* a local variable: v is computed once, F(x) is what follows with x = v
Let(v, F(_)) == CHOOSE r \in {F(x) : x \in {v}} : TRUE

(***************************************************************************)
(* Bounds of the model                                                     *)
(***************************************************************************)
\* texts of up to MaxChunks full chunks (plus one character) are embedded
MaxChunks == 2

\* vectors of expected_dim - MaxExtra .. expected_dim + MaxExtra components
MaxExtra == 1

\* store_vector draws at most MaxUuid identifiers
MaxUuid == 2

\* search_similar is called with a limit of 0..MaxLimit
MaxLimit == 2

\* the chat endpoint is followed until MaxRuns runs were submitted to
\* LangSmith and MaxUploads files were saved
MaxRuns == 1

MaxUploads == 1

\* the prompt is assembled from up to MaxDocs retrieved records
MaxDocs == 2

\* the monitor has submitted at most MaxTraced runs before a traced call
MaxTraced == 2

\* request threads that call get_sentence_model
MaxThreads == 2

\* monitored calls made on one LLMMonitor
MaxCalls == 2

\* entries in the metrics file when the LLMMonitor is constructed
MaxLoaded == 2

(***************************************************************************)
(* Program constants                                                       *)
(***************************************************************************)
\* max_length = 512
max_length == 512

\* np.zeros(1024), the fallback vector of the app variant
ZeroDim == 1024

\* SentenceTransformer('BAAI/bge-large-en-v1.5'): 1024 components
AppModelDim == 1024

\* SentenceTransformer('all-MiniLM-L6-v2'): 384 components
RootModelDim == 384

(***************************************************************************)
(* The embedding model (external): encode maps each chunk to a vector of   *)
(* the model's dimension.  The components are a function of the chunk.     *)
(***************************************************************************)
CharCode(c) == IF c = "a" THEN 1 ELSE IF c = "b" THEN 2 ELSE 3

EncodeChunk(chunk, dim) ==
    [i \in 1..dim |-> ((Len(chunk) + CharCode(chunk[1]) + i) % 7) - 3]

\* model.encode(chunks): one row per chunk
encode(chunks, dim) == [k \in 1..Len(chunks) |-> EncodeChunk(chunks[k], dim)]

RECURSIVE SumAt(_, _, _)
SumAt(rows, i, k) == IF k = 0 THEN 0 ELSE rows[k][i] + SumAt(rows, i, k - 1)

\* np.mean(embeddings, axis=0): the unweighted mean of the rows
mean_axis0(rows) ==
    [i \in 1..Len(rows[1]) |-> SumAt(rows, i, Len(rows)) \div Len(rows)]

\* [text[i:i+max_length] for i in range(0, len(text), max_length)]
Chunks(text) ==
    LET n == (Len(text) + max_length - 1) \div max_length
    IN  [k \in 1..n |-> Slice(text, (k - 1) * max_length, k * max_length)]

\* the part of text_to_vector after the model and the text were checked:
\* chunk, encode, average.  encOk = FALSE: model.encode raises.
\* embeddings[0] of an empty result raises IndexError.
Embed(text, dim, encOk) ==
    LET chunks == Chunks(text)
    IN  IF ~encOk THEN [raised |-> TRUE, value |-> None]
        ELSE LET embeddings == encode(chunks, dim)
             IN  IF Len(embeddings) > 1
                 THEN [raised |-> FALSE, value |-> Arr(mean_axis0(embeddings))]
                 ELSE IF Len(embeddings) = 0
                      THEN [raised |-> TRUE, value |-> None]
                      ELSE [raised |-> FALSE, value |-> Arr(embeddings[1])]

(***************************************************************************)
(* app/services/file_processor.py                                          *)
(***************************************************************************)
\* get_sentence_model(): the handle after the call, given whether
\* SentenceTransformer(...) would load (loadOk)
get_sentence_model(cur, loadOk) ==
    IF cur = "None" THEN (IF loadOk THEN "loaded" ELSE "None") ELSE cur

\* text_to_vector(text) of the app variant
text_to_vector(text, cur, loadOk, encOk) ==
    LET model == get_sentence_model(cur, loadOk)
    IN  IF model = "None" THEN Arr(zeros(ZeroDim))
        ELSE IF Len(text) = 0 THEN Arr(zeros(ZeroDim))
        ELSE LET e == Embed(text, AppModelDim, encOk)
             IN  IF e.raised THEN Arr(zeros(ZeroDim)) ELSE e.value

(***************************************************************************)
(* file_processor.py (the root variant)                                    *)
(***************************************************************************)
root_text_to_vector(text, model, encOk) ==
    IF model = "None" THEN None
    ELSE LET e == Embed(text, RootModelDim, encOk)
         IN  IF e.raised THEN None ELSE e.value

(***************************************************************************)
(* Strings: str methods, urlparse and the regular expression, on           *)
(* sequences of characters                                                 *)
(***************************************************************************)
\* s.startswith(p)
StartsWith(s, p) == Len(s) >= Len(p) /\ SubSeq(s, 1, Len(p)) = p

\* s[i:] for a 0-based offset i
From(s, i) == SubSeq(s, i + 1, Len(s))

\* p occurs in s at 0-based offset i
MatchAt(s, i, p) == i + Len(p) <= Len(s) /\ SubSeq(s, i + 1, i + Len(p)) = p

\* sub in s
Contains(s, sub) == \E i \in 0..Len(s) : MatchAt(s, i, sub)

\* s.find(sub): the first offset, or -1
Find(s, sub) ==
    IF Contains(s, sub)
    THEN CHOOSE i \in 0..Len(s) :
             MatchAt(s, i, sub) /\ \A j \in 0..(i - 1) : ~MatchAt(s, j, sub)
    ELSE -1

\* s.rfind(sub): the last offset, or -1
RFind(s, sub) ==
    IF Contains(s, sub)
    THEN CHOOSE i \in 0..Len(s) :
             MatchAt(s, i, sub) /\ \A j \in (i + 1)..Len(s) : ~MatchAt(s, j, sub)
    ELSE -1

\* s.split(sub)[0]: s up to the first occurrence of sub
BeforeFirst(s, sub) ==
    Let(Find(s, sub), LAMBDA i : IF i >= 0 THEN SubSeq(s, 1, i) ELSE s)

\* the smallest element of a set of numbers that is not empty
Min(S) == CHOOSE i \in S : \A j \in S : i <= j

Whitespace == {" ", "\n", "\t", "\r"}

\* s.strip()
Strip(s) ==
    Let({i \in 1..Len(s) : s[i] \notin Whitespace}, LAMBDA keep :
        IF keep = {} THEN <<>>
        ELSE SubSeq(s, Min(keep), CHOOSE i \in keep : \A j \in keep : i >= j))

UpperLetters == <<"A", "B", "C", "D", "E", "F", "G", "H", "I", "J", "K", "L", "M", "N", "O", "P", "Q", "R", "S", "T", "U", "V", "W", "X", "Y", "Z">>

LowerLetters == <<"a", "b", "c", "d", "e", "f", "g", "h", "i", "j", "k", "l", "m", "n", "o", "p", "q", "r", "s", "t", "u", "v", "w", "x", "y", "z">>

Digits == <<"0", "1", "2", "3", "4", "5", "6", "7", "8", "9">>

Range(seq) == {seq[i] : i \in 1..Len(seq)}

\* c.lower()
LowerChar(c) ==
    IF c \in Range(UpperLetters)
    THEN LowerLetters[CHOOSE i \in 1..Len(UpperLetters) : UpperLetters[i] = c]
    ELSE c

\* s.lower()
Lower(s) == [i \in 1..Len(s) |-> LowerChar(s[i])]

\* urllib.parse: scheme_chars
SchemeChars ==
    Range(UpperLetters) \cup Range(LowerLetters) \cup Range(Digits) \cup {"+", "-", "."}

IsAlpha(c) == c \in Range(UpperLetters) \cup Range(LowerLetters)

\* urlsplit after the scheme: // netloc up to the first of / ? #
SplitNetloc(scheme, rest) ==
    IF StartsWith(rest, <<"/", "/">>)
    THEN Let({k \in 3..Len(rest) : rest[k] \in {"/", "?", "#"}}, LAMBDA ends :
         Let(IF ends = {} THEN Len(rest) + 1 ELSE Min(ends), LAMBDA stop :
             [scheme |-> scheme, netloc |-> SubSeq(rest, 3, stop - 1),
              path |-> From(rest, stop - 1)]))
    ELSE [scheme |-> scheme, netloc |-> <<>>, path |-> rest]

\* urlparse(text): the scheme and the netloc of urlsplit; path is all that
\* follows the netloc
urlparse(text) ==
    Let(Find(text, <<":">>), LAMBDA i :
        IF i > 0 /\ IsAlpha(text[1]) /\ \A k \in 1..i : text[k] \in SchemeChars
        THEN SplitNetloc(Lower(SubSeq(text, 1, i)), From(text, i + 1))
        ELSE SplitNetloc(<<>>, text))

\* is_url(text): all([result.scheme, result.netloc])
is_url(text) ==
    Let(urlparse(text), LAMBDA result : result.scheme # <<>> /\ result.netloc # <<>>)

(***************************************************************************)
(* app/services/youtube_processor.py: is_youtube_url                       *)
(***************************************************************************)
\* the offsets reached from the offsets P by matching one of the literals
After(s, P, lits) ==
    {pl[1] + Len(pl[2]) : pl \in {x \in P \X lits : MatchAt(s, x[1], x[2])}}

\* ( ... )? : the literals are optional
Optional(s, P, lits) == P \cup After(s, P, lits)

\* .+\?v= : one or more characters other than a newline, then ?v=
AfterAnyThenV(s, P) ==
    {q + 3 : q \in {q \in 0..Len(s) :
                       /\ MatchAt(s, q, <<"?", "v", "=">>)
                       /\ \E p \in P : /\ p < q
                                       /\ \A k \in (p + 1)..q : s[k] # "\n"}}

\* [^&=%\?]{11} at offset p
VideoIdAt(s, p) ==
    /\ p + 11 <= Len(s)
    /\ \A k \in (p + 1)..(p + 11) : s[k] \notin {"&", "=", "%", "?"}

\* is_youtube_url(url): re.match of
\* (https?://)?(www\.)?(youtube|youtu|youtube-nocookie)\.(com|be)/
\* (watch\?v=|embed/|v/|.+\?v=)?([^&=%\?]{11})
is_youtube_url(url) ==
    LET p1 == Optional(url, {0}, {<<"h", "t", "t", "p", ":", "/", "/">>, <<"h", "t", "t", "p", "s", ":", "/", "/">>})
        p2 == Optional(url, p1, {<<"w", "w", "w", ".">>})
        p3 == After(url, p2, {<<"y", "o", "u", "t", "u", "b", "e">>, <<"y", "o", "u", "t", "u">>, <<"y", "o", "u", "t", "u", "b", "e", "-", "n", "o", "c", "o", "o", "k", "i", "e">>})
        p4 == After(url, p3, {<<".">>})
        p5 == After(url, p4, {<<"c", "o", "m">>, <<"b", "e">>})
        p6 == After(url, p5, {<<"/">>})
        p7 == p6 \cup After(url, p6, {<<"w", "a", "t", "c", "h", "?", "v", "=">>, <<"e", "m", "b", "e", "d", "/">>, <<"v", "/">>})
                 \cup AfterAnyThenV(url, p6)
    IN  \E p \in p7 : VideoIdAt(url, p)

(***************************************************************************)
(* Python dictionaries are functions on their keys                         *)
(***************************************************************************)
HasKey(d, k) == k \in DOMAIN d

\* d.get(k, default)
Get(d, k, default) == IF k \in DOMAIN d THEN d[k] ELSE default

\* d.update(m), as a value
DictUpdate(d, m) ==
    [k \in DOMAIN d \cup DOMAIN m |-> IF k \in DOMAIN m THEN m[k] ELSE d[k]]

\* the empty dict
EmptyDict == [k \in {} |-> None]

(***************************************************************************)
(* app/services/astra_db.py: AstraDBManager                                *)
(***************************************************************************)
\* expected_dim = 1024
expected_dim == 1024

\* 1.0 in the fixed-point scale of similarities
SimOne == 8

DigitChar(n) ==
    CASE n = 0 -> "0" [] n = 1 -> "1" [] n = 2 -> "2" [] n = 3 -> "3" [] n = 4 -> "4"
      [] n = 5 -> "5" [] n = 6 -> "6" [] n = 7 -> "7" [] n = 8 -> "8" [] OTHER -> "9"

\* str(uuid.uuid4()): the n-th identifier drawn
Uuid4(n) == <<"u", "u", "i", "d", "-", DigitChar(n)>>

\* "unknown"
UNKNOWN_ID == <<"u", "n", "k", "n", "o", "w", "n">>

\* a slip in the truncation branch: a longer vector is left as it is
StoreCorrectDim_NoTruncate(vector) ==
    LET vector_dim == Len(vector)
    IN  IF vector_dim < expected_dim
        THEN vector \o zeros(expected_dim - vector_dim)
        ELSE vector

\* store_vector lines 131-147: pad with zeros or truncate to expected_dim
StoreCorrectDim(vector) ==
    LET vector_dim == Len(vector)
    IN  IF vector_dim # expected_dim
        THEN IF vector_dim < expected_dim
             THEN vector \o zeros(expected_dim - vector_dim)
             ELSE Slice(vector, 0, expected_dim)
        ELSE vector

\* a slip in the padding branch: expected_dim zeros instead of the difference
SearchCorrectDim_PadFull(vector) ==
    LET vector_dim == Len(vector)
    IN  IF vector_dim # expected_dim
        THEN IF vector_dim < expected_dim
             THEN vector \o zeros(expected_dim)
             ELSE Slice(vector, 0, expected_dim)
        ELSE vector

\* search_similar lines 183-199: the same correction, written out again
SearchCorrectDim(vector) ==
    LET vector_dim == Len(vector)
    IN  IF vector_dim # expected_dim
        THEN IF vector_dim < expected_dim
             THEN vector \o zeros(expected_dim - vector_dim)
             ELSE Slice(vector, 0, expected_dim)
        ELSE vector

\* store_vector(text, vector, metadata) on a connected or unconnected manager.
\* vector is an ndarray or a list (tag "list"); insertOk = FALSE: insert_one
\* raises.  Returns the id (or None), the collection and the uuid counter after
\* the call, and the vector handed to insert_one (sent).
store_vector(connected, coll, counter, text, vector, metadata, insertOk) ==
    IF ~connected
    THEN [id |-> None, coll |-> coll, counter |-> counter, sent |-> None]
    ELSE LET document_id == Uuid4(counter)
             corrected == StoreCorrectDim(vector.data)
             base == [text |-> text, timestamp |-> counter]
             document_data ==
                 IF DOMAIN metadata # {} THEN DictUpdate(base, metadata) ELSE base
             row == [_id |-> document_id, document |-> document_data,
                     vector |-> corrected]
         IN  IF insertOk
             THEN [id |-> [tag |-> "str", s |-> document_id],
                   coll |-> Append(coll, row), counter |-> counter + 1,
                   sent |-> [tag |-> "list", data |-> corrected]]
             ELSE [id |-> None, coll |-> coll, counter |-> counter + 1,
                   sent |-> [tag |-> "list", data |-> corrected]]

\* the similarity the backend computes for a stored vector (external): the
\* number of the first SimOne components that agree with the query
Similarity(query, vector) ==
    Cardinality({i \in 1..SimOne :
                    i <= Len(query) /\ i <= Len(vector) /\ query[i] = vector[i]})

\* key=lambda x: x.get("$similarity", 0)
SimKey(x) == Get(x, "$similarity", 0)

\* list.sort(key=SimKey, reverse=True): stable, by non-increasing key
RECURSIVE InsertDesc(_, _)
InsertDesc(sorted, x) ==
    IF sorted = <<>> THEN <<x>>
    ELSE IF SimKey(x) > SimKey(Head(sorted)) THEN <<x>> \o sorted
    ELSE <<Head(sorted)>> \o InsertDesc(Tail(sorted), x)

RECURSIVE SortDesc(_)
SortDesc(seq) ==
    IF seq = <<>> THEN <<>>
    ELSE InsertDesc(SortDesc(SubSeq(seq, 1, Len(seq) - 1)), seq[Len(seq)])

\* seq[:n] of Python for n >= 0
Take(seq, n) == SubSeq(seq, 1, IF n < Len(seq) THEN n ELSE Len(seq))

\* the backend's nearest-neighbour query (external): the stored rows by
\* non-increasing similarity to the query, the first `limit` of them
RankedRows(coll, query, limit) ==
    LET scored == [k \in 1..Len(coll) |->
                      ("$similarity" :> Similarity(query, coll[k].vector))
                      @@ [row |-> coll[k]]]
        ranked == SortDesc(scored)
    IN  Take(ranked, limit)

\* what the SDK surface `sdk` returns to search_similar after its chain of
\* attempts (lines 203-229):
\*   "vector_search": collection.vector_search exists; hits carry
\*                    document, id and similarity
\*   "find_options":  vector_search raises AttributeError; find(filter, options)
\*   "find_sort":     the options form raises TypeError; find(filter, sort, limit)
\*   "find_all":      the sort form raises TypeError too; find({}) returns every
\*                    stored row
\* the find forms return the rows as stored: {_id, document, vector}
BackendResults(sdk, coll, query, limit) ==
    LET ranked == RankedRows(coll, query, limit)
    IN  CASE sdk = "vector_search" ->
               [k \in 1..Len(ranked) |->
                   [document |-> ranked[k].row.document,
                    id |-> ranked[k].row._id,
                    similarity |-> ranked[k]["$similarity"]]]
          [] sdk \in {"find_options", "find_sort"} ->
               [k \in 1..Len(ranked) |-> ranked[k].row]
          [] OTHER -> coll

\* lines 247-266: one result brought to the expected format
ProcessResult(result) ==
    IF HasKey(result, "document")
    THEN DictUpdate(result.document,
                    [_id |-> Get(result, "id", UNKNOWN_ID)]
                    @@ ("$similarity" :> Get(result, "similarity", SimOne)))
    ELSE IF HasKey(result, "_id")
    THEN (IF HasKey(result, "$similarity") THEN result
          ELSE DictUpdate(result, "$similarity" :> SimOne))
    ELSE LET d1 == IF HasKey(result, "$similarity") THEN result
                   ELSE DictUpdate(result, "$similarity" :> SimOne)
         IN  IF HasKey(d1, "_id") THEN d1 ELSE DictUpdate(d1, [_id |-> UNKNOWN_ID])

\* search_similar(vector, limit).  sdk = "raises": a collection call raises
\* something the chain does not catch, and the outer except returns [].
\* Returns the processed results and the vector handed to the backend (sent).
search_similar(connected, coll, vector, limit, sdk) ==
    IF ~connected THEN [results |-> <<>>, sent |-> None]
    ELSE LET corrected == SearchCorrectDim(vector.data)
             sent == [tag |-> "list", data |-> corrected]
         IN  IF sdk = "raises" THEN [results |-> <<>>, sent |-> sent]
             ELSE LET results == BackendResults(sdk, coll, corrected, limit)
                      processed_results ==
                          [k \in 1..Len(results) |-> ProcessResult(results[k])]
                  IN  [results |->
                          IF Len(processed_results) > 1
                          THEN Take(SortDesc(processed_results), limit)
                          ELSE processed_results,
                       sent |-> sent]

\* the call shapes of lines 203-229, in the order they are written
SdkShapes == <<"vector_search", "find_options", "find_sort", "find_all">>

\* a slip: vector_search is given the except clause of the find forms
FallsThroughOn_TypeError(shape) ==
    CASE shape \in {"vector_search", "find_options", "find_sort"} -> "TypeError"
      [] OTHER -> "never"

\* the exception after which the next shape is tried
FallsThroughOn(shape) ==
    CASE shape = "vector_search" -> "AttributeError"
      [] shape \in {"find_options", "find_sort"} -> "TypeError"
      [] OTHER -> "never"

\* lines 203-229 from the k-th shape on.  surface[shape] is how the call of
\* that shape ends: "ok", "AttributeError", "TypeError" or "Exception" (any
\* other exception).  Returns the shapes tried, and the shape that answered
\* or "raises" when an exception reached the outer except.
RECURSIVE SearchChainFrom(_, _, _)
SearchChainFrom(surface, k, tried) ==
    Let(SdkShapes[k], LAMBDA shape :
        IF surface[shape] = "ok"
        THEN [tried |-> Append(tried, shape), sdk |-> shape]
        ELSE IF k < Len(SdkShapes) /\ surface[shape] = FallsThroughOn(shape)
        THEN SearchChainFrom(surface, k + 1, Append(tried, shape))
        ELSE [tried |-> Append(tried, shape), sdk |-> "raises"])

\* the chain of attempts of search_similar
SearchChain(surface) == SearchChainFrom(surface, 1, <<>>)

\* a slip: the except of delete_document reports success
delete_document_Optimistic(connected, coll, document_id, deleteOk) ==
    IF ~connected THEN [ok |-> FALSE, coll |-> coll, called |-> FALSE]
    ELSE [ok |-> TRUE,
          coll |-> IF deleteOk
                   THEN SelectSeq(coll, LAMBDA row : row._id # document_id)
                   ELSE coll,
          called |-> TRUE]

\* delete_document(document_id).  deleteOk = FALSE: collection.delete_one
\* raises.  Returns the boolean, the collection after the call and whether
\* the collection was called.
delete_document(connected, coll, document_id, deleteOk) ==
    IF ~connected THEN [ok |-> FALSE, coll |-> coll, called |-> FALSE]
    ELSE IF deleteOk
    THEN [ok |-> TRUE,
          coll |-> SelectSeq(coll, LAMBDA row : row._id # document_id),
          called |-> TRUE]
    ELSE [ok |-> FALSE, coll |-> coll, called |-> TRUE]

\* str(n) for n >= 0
RECURSIVE IntToStr(_)
IntToStr(n) ==
    IF n < 10 THEN <<DigitChar(n)>>
    ELSE IntToStr(n \div 10) \o <<DigitChar(n % 10)>>

\* a str value that may be None
Str(s) == [tag |-> "str", s |-> s]

\* f"{x}" for a value that is a str or None
Fmt(x) == IF x.tag = "None" THEN <<"N", "o", "n", "e">> ELSE x.s

\* url.split('&')[0] if '&' in url else url
CleanUrl(url) == BeforeFirst(url, <<"&">>)

\* parse_qs(query).get('v', [None])[0]: the value of the first v= field that
\* is not empty
QueryV(query) ==
    Let({i \in 0..Len(query) :
            /\ MatchAt(query, i, <<"v", "=">>)
            /\ (i = 0 \/ query[i] = "&")
            /\ i + 2 < Len(query) /\ query[i + 3] # "&"}, LAMBDA starts :
        IF starts = {} THEN None
        ELSE Str(BeforeFirst(From(query, Min(starts) + 2), <<"&">>)))

\* path.lstrip('/')
LStripSlash(path) ==
    Let({i \in 1..Len(path) : path[i] # "/"}, LAMBDA nonSlash :
        IF nonSlash = {} THEN <<>> ELSE From(path, Min(nonSlash) - 1))

\* extract_video_id(url)
extract_video_id(url) ==
    Let(BeforeFirst(urlparse(url).path, <<"#">>), LAMBDA noFrag :
    Let(Find(noFrag, <<"?">>), LAMBDA qAt :
        IF Contains(url, <<"y", "o", "u", "t", "u", ".", "b", "e">>)
        THEN Str(BeforeFirst(LStripSlash(IF qAt >= 0 THEN SubSeq(noFrag, 1, qAt)
                                          ELSE noFrag), <<"/">>))
        ELSE QueryV(IF qAt >= 0 THEN From(noFrag, qAt + 1) ELSE <<>>)))

(***************************************************************************)
(* app/services/youtube_processor.py: metadata, download, transcription.   *)
(* The video service is external; `env` says what it answers:              *)
(*   ctorOk        YouTube(url) can be constructed                         *)
(*   titleOk, authorOk, lengthOk, viewsOk, descOk   the attribute is read  *)
(*                 without an exception                                    *)
(*   title, author, length, views, description      the attribute values   *)
(*   msg           str(e) of the exceptions raised                         *)
(*   sr_available  the speech recognition library was imported             *)
(*   downloads     the outcome of each download attempt, in order:         *)
(*                 "ok", "no_stream" or "raise"                            *)
(*   recogOk, transcript   the recognizer's answer                         *)
(***************************************************************************)
\* a fourth attempt by default
max_retries_Four == 3 + 1

\* max_retries=3
max_retries == 3

\* the description is cut to 500 characters in the summary
DescCut == 500

\* get_video_info(url)
get_video_info(url, env) ==
    IF ~env.ctorOk
    THEN [error |-> env.msg,
          url |-> url,
          video_id |-> IF is_youtube_url(url) THEN extract_video_id(url) ELSE None,
          title |-> <<"[", "U", "n", "a", "b", "l", "e", " ", "t", "o", " ", "a", "c", "c", "e", "s", "s", " ", "v", "i", "d", "e", "o", "]">>,
          description |-> <<"E", "r", "r", "o", "r", " ", "a", "c", "c", "e", "s", "s", "i", "n", "g", " ", "v", "i", "d", "e", "o", ":", " ">> \o env.msg]
    ELSE Let(CleanUrl(url), LAMBDA clean_url :
         [title |-> IF env.titleOk THEN env.title ELSE <<"[", "T", "i", "t", "l", "e", " ", "u", "n", "a", "v", "a", "i", "l", "a", "b", "l", "e", "]">>,
          author |-> IF env.authorOk THEN env.author ELSE <<"[", "A", "u", "t", "h", "o", "r", " ", "u", "n", "a", "v", "a", "i", "l", "a", "b", "l", "e", "]">>,
          length_seconds |-> IF env.lengthOk THEN env.length ELSE 0,
          views |-> IF env.viewsOk THEN env.views ELSE 0,
          description |-> IF env.descOk THEN env.description
                          ELSE <<"[", "D", "e", "s", "c", "r", "i", "p", "t", "i", "o", "n", " ", "u", "n", "a", "v", "a", "i", "l", "a", "b", "l", "e", "]">>,
          thumbnail_url |-> None,
          publish_date |-> None,
          video_id |-> extract_video_id(clean_url),
          url |-> clean_url])

\* os.path.join(tempfile.gettempdir(), f"{video_id}.mp4")
TempAudioPath(url) == <<"/", "t", "m", "p", "/">> \o Fmt(extract_video_id(CleanUrl(url))) \o <<".", "m", "p", "4">>

\* a slip: the wait before a retry is always one second
download_attempt_FixedWait(url, attempt, retries, outcome) ==
    CASE outcome = "ok" -> [ctl |-> "return", path |-> Str(TempAudioPath(url)), wait |-> 0]
      [] outcome = "no_stream" -> [ctl |-> "return", path |-> None, wait |-> 0]
      [] OTHER ->
           IF attempt < retries - 1
           THEN [ctl |-> "retry", path |-> None, wait |-> 1]
           ELSE [ctl |-> "return", path |-> None, wait |-> 0]

\* one pass of the loop body of download_audio: what attempt number `attempt`
\* (from 0) does when the download ends as `outcome`
download_attempt(url, attempt, retries, outcome) ==
    CASE outcome = "ok" -> [ctl |-> "return", path |-> Str(TempAudioPath(url)), wait |-> 0]
      [] outcome = "no_stream" -> [ctl |-> "return", path |-> None, wait |-> 0]
      [] OTHER ->
           IF attempt < retries - 1
           THEN [ctl |-> "retry", path |-> None, wait |-> 2 ^ attempt]
           ELSE [ctl |-> "return", path |-> None, wait |-> 0]

\* for attempt in range(max_retries): ... from attempt number `attempt` on;
\* waits are the time.sleep calls made so far
RECURSIVE download_loop(_, _, _, _, _)
download_loop(url, attempt, retries, outcomes, waits) ==
    IF attempt >= retries
    THEN [path |-> None, attempts |-> attempt, waits |-> waits]
    ELSE Let(download_attempt(url, attempt, retries, outcomes[attempt + 1]), LAMBDA r :
             IF r.ctl = "return"
             THEN [path |-> r.path, attempts |-> attempt + 1, waits |-> waits]
             ELSE download_loop(url, attempt + 1, retries, outcomes,
                                Append(waits, r.wait)))

\* download_audio(url) with the default max_retries
download_audio(url, outcomes) == download_loop(url, 0, max_retries, outcomes, <<>>)

\* transcribe_youtube_audio, lines 170-181: what it returns before any
\* download, or None when it goes on to download_audio
TranscribeEarlyReturn(url, env) ==
    IF ~env.sr_available
    THEN Str(<<"C", "a", "n", "n", "o", "t", " ", "t", "r", "a", "n", "s", "c", "r", "i", "b", "e", " ", "Y", "o", "u", "T", "u", "b", "e", " ", "v", "i", "d", "e", "o", "s", ".", " ", "S", "p", "e", "e", "c", "h", "R", "e", "c", "o", "g", "n", "i", "t", "i", "o", "n", " ", "l", "i", "b", "r", "a", "r", "y", " ", "n", "o", "t", " ", "i", "n", "s", "t", "a", "l", "l", "e", "d", ".">>)
    ELSE Let(get_video_info(url, env), LAMBDA video_info :
             IF HasKey(video_info, "error")
             THEN Str(<<"E", "r", "r", "o", "r", " ", "g", "e", "t", "t", "i", "n", "g", " ", "v", "i", "d", "e", "o", " ", "i", "n", "f", "o", ":", " ">> \o video_info.error)
             ELSE None)

\* transcribe_youtube_audio, lines 186-219: what it returns once
\* download_audio has returned audio_path
TranscribeAfterDownload(url, env, audio_path) ==
    IF audio_path.tag = "None"
    THEN Str(<<"F", "a", "i", "l", "e", "d", " ", "t", "o", " ", "d", "o", "w", "n", "l", "o", "a", "d", " ", "a", "u", "d", "i", "o", " ", "f", "r", "o", "m", " ", "Y", "o", "u", "T", "u", "b", "e", " ", "v", "i", "d", "e", "o", ".">>)
    ELSE IF ~env.recogOk
    THEN Str(<<"E", "r", "r", "o", "r", " ", "t", "r", "a", "n", "s", "c", "r", "i", "b", "i", "n", "g", " ", "Y", "o", "u", "T", "u", "b", "e", " ", "v", "i", "d", "e", "o", ":", " ">> \o env.msg)
    ELSE Let(get_video_info(url, env), LAMBDA video_info :
             [tag |-> "dict",
              d |-> [title |-> video_info.title,
                     author |-> video_info.author,
                     transcript |-> env.transcript,
                     video_id |-> video_info.video_id,
                     length_seconds |-> video_info.length_seconds]])

\* transcribe_youtube_audio(url): a dict (tag "dict") or a message (tag "str")
transcribe_youtube_audio(url, env) ==
    Let(TranscribeEarlyReturn(url, env), LAMBDA early :
        IF early.tag # "None" THEN early
        ELSE TranscribeAfterDownload(url, env,
                                     download_audio(url, env.downloads).path))

\* get_youtube_transcript, lines 240-258: the summary of the metadata
VideoSummary(video_info) ==
    Let(Get(video_info, "description", <<>>), LAMBDA description :
        <<"Y", "o", "u", "T", "u", "b", "e", " ", "V", "i", "d", "e", "o", " ", "I", "n", "f", "o", "r", "m", "a", "t", "i", "o", "n", ":", "\n">>
        \o (IF HasKey(video_info, "error")
            THEN <<"W", "a", "r", "n", "i", "n", "g", ":", " ", "L", "i", "m", "i", "t", "e", "d", " ", "i", "n", "f", "o", "r", "m", "a", "t", "i", "o", "n", " ", "a", "v", "a", "i", "l", "a", "b", "l", "e", ".", " ", "E", "r", "r", "o", "r", ":", " ">>
                     \o video_info.error \o <<"\n", "\n">>
            ELSE <<>>)
        \o <<"T", "i", "t", "l", "e", ":", " ">> \o Get(video_info, "title", <<"[", "T", "i", "t", "l", "e", " ", "u", "n", "a", "v", "a", "i", "l", "a", "b", "l", "e", "]">>)
        \o <<"\n", "A", "u", "t", "h", "o", "r", ":", " ">> \o Get(video_info, "author", <<"[", "A", "u", "t", "h", "o", "r", " ", "u", "n", "a", "v", "a", "i", "l", "a", "b", "l", "e", "]">>)
        \o <<"\n", "V", "i", "d", "e", "o", " ", "I", "D", ":", " ">> \o Fmt(video_info.video_id) \o <<"\n">>
        \o (IF Get(video_info, "length_seconds", 0) > 0
            THEN <<"L", "e", "n", "g", "t", "h", ":", " ">> \o IntToStr(video_info.length_seconds) \o <<" ", "s", "e", "c", "o", "n", "d", "s", "\n">>
            ELSE <<>>)
        \o (IF Get(video_info, "views", 0) > 0
            THEN <<"V", "i", "e", "w", "s", ":", " ">> \o IntToStr(video_info.views) \o <<"\n">>
            ELSE <<>>)
        \o (IF description # <<>>
            THEN <<"D", "e", "s", "c", "r", "i", "p", "t", "i", "o", "n", ":", " ">>
                     \o (IF Len(description) > DescCut
                         THEN Slice(description, 0, DescCut) \o <<".", ".", ".">>
                         ELSE description)
                     \o <<"\n">>
            ELSE <<>>)
        \o <<"\n">>)

\* a slip: the description is not added when the transcription failed
TranscriptPart_NoFallback(video_info, env, transcript_result) ==
    (IF ~HasKey(video_info, "error") /\ env.sr_available
     THEN IF transcript_result.tag = "dict"
          THEN <<"T", "r", "a", "n", "s", "c", "r", "i", "p", "t", ":", "\n">> \o transcript_result.d.transcript
          ELSE <<"T", "r", "a", "n", "s", "c", "r", "i", "p", "t", "i", "o", "n", " ", "f", "a", "i", "l", "e", "d", ":", " ">> \o transcript_result.s \o <<"\n">>
     ELSE IF HasKey(video_info, "error")
          THEN <<"\n", "T", "r", "a", "n", "s", "c", "r", "i", "p", "t", "i", "o", "n", " ", "n", "o", "t", " ", "a", "t", "t", "e", "m", "p", "t", "e", "d", " ", "d", "u", "e", " ", "t", "o", " ", "e", "r", "r", "o", "r", " ", "a", "c", "c", "e", "s", "s", "i", "n", "g", " ", "v", "i", "d", "e", "o", ".", "\n">>
          ELSE <<"\n", "T", "r", "a", "n", "s", "c", "r", "i", "p", "t", "i", "o", "n", " ", "n", "o", "t", " ", "a", "v", "a", "i", "l", "a", "b", "l", "e", ".", " ", "S", "p", "e", "e", "c", "h", "R", "e", "c", "o", "g", "n", "i", "t", "i", "o", "n", " ", "l", "i", "b", "r", "a", "r", "y", " ", "n", "o", "t", " ", "i", "n", "s", "t", "a", "l", "l", "e", "d", ".", "\n">>)

\* get_youtube_transcript, lines 260-287: the transcription, or why there is
\* none, and the description as a fallback
TranscriptPart(video_info, env, transcript_result) ==
    (IF ~HasKey(video_info, "error") /\ env.sr_available
     THEN IF transcript_result.tag = "dict"
          THEN <<"T", "r", "a", "n", "s", "c", "r", "i", "p", "t", ":", "\n">> \o transcript_result.d.transcript
          ELSE <<"T", "r", "a", "n", "s", "c", "r", "i", "p", "t", "i", "o", "n", " ", "f", "a", "i", "l", "e", "d", ":", " ">> \o transcript_result.s \o <<"\n">>
     ELSE IF HasKey(video_info, "error")
          THEN <<"\n", "T", "r", "a", "n", "s", "c", "r", "i", "p", "t", "i", "o", "n", " ", "n", "o", "t", " ", "a", "t", "t", "e", "m", "p", "t", "e", "d", " ", "d", "u", "e", " ", "t", "o", " ", "e", "r", "r", "o", "r", " ", "a", "c", "c", "e", "s", "s", "i", "n", "g", " ", "v", "i", "d", "e", "o", ".", "\n">>
          ELSE <<"\n", "T", "r", "a", "n", "s", "c", "r", "i", "p", "t", "i", "o", "n", " ", "n", "o", "t", " ", "a", "v", "a", "i", "l", "a", "b", "l", "e", ".", " ", "S", "p", "e", "e", "c", "h", "R", "e", "c", "o", "g", "n", "i", "t", "i", "o", "n", " ", "l", "i", "b", "r", "a", "r", "y", " ", "n", "o", "t", " ", "i", "n", "s", "t", "a", "l", "l", "e", "d", ".", "\n">>)
    \o (IF /\ ~(/\ ~HasKey(video_info, "error")
                /\ env.sr_available
                /\ transcript_result.tag = "dict")
           /\ Get(video_info, "description", <<>>) # <<>>
        THEN <<"\n", "U", "s", "i", "n", "g", " ", "v", "i", "d", "e", "o", " ", "d", "e", "s", "c", "r", "i", "p", "t", "i", "o", "n", " ", "a", "s", " ", "a", " ", "f", "a", "l", "l", "b", "a", "c", "k", " ", "s", "i", "n", "c", "e", " ", "t", "r", "a", "n", "s", "c", "r", "i", "p", "t", "i", "o", "n", " ", "w", "a", "s", " ", "n", "o", "t", " ", "a", "v", "a", "i", "l", "a", "b", "l", "e", ":", "\n", "\n">>
                 \o video_info.description
        ELSE <<>>)

\* get_youtube_transcript(url): always a string
get_youtube_transcript(url, env) ==
    IF ~is_youtube_url(url) THEN <<"N", "o", "t", " ", "a", " ", "v", "a", "l", "i", "d", " ", "Y", "o", "u", "T", "u", "b", "e", " ", "U", "R", "L", ":", " ">> \o url
    ELSE Let(CleanUrl(url), LAMBDA clean_url :
         Let(get_video_info(clean_url, env), LAMBDA video_info :
         Let(transcribe_youtube_audio(clean_url, env), LAMBDA transcript_result :
             VideoSummary(video_info)
             \o TranscriptPart(video_info, env, transcript_result)
             \o <<"\n", "\n", "P", "l", "e", "a", "s", "e", " ", "p", "r", "o", "v", "i", "d", "e", " ", "a", " ", "s", "u", "m", "m", "a", "r", "y", " ", "o", "f", " ", "w", "h", "a", "t", " ", "y", "o", "u", "'", "d", " ", "l", "i", "k", "e", " ", "t", "o", " ", "k", "n", "o", "w", " ", "a", "b", "o", "u", "t", " ", "t", "h", "i", "s", " ", "v", "i", "d", "e", "o", ".">>)))

(***************************************************************************)
(* app/services/file_processor.py: extractors and process_file.            *)
(* `libs` says which optional libraries were imported (fitz, docx, sr,  *)
(* youtube); a file is a record                                            *)
(*   path, exists, mime (what mimetypes.guess_type answers: None or a str),*)
(*   readable (the extractor's library reads it without an exception),     *)
(*   content (the text it holds), width, height, format, mode (an image),  *)
(*   msg (str(e) of the exception raised when it is not readable),         *)
(*   raises (something in process_file's own try block raises)             *)
(***************************************************************************)
\* video_processing_available = False
video_processing_available == FALSE

\* a slip: the exception of the PDF library is swallowed and the text
\* extracted so far (nothing) is returned
extract_text_from_pdf_Silent(file, libs) ==
    IF ~libs.fitz
    THEN <<"[", "P", "D", "F", " ", "t", "e", "x", "t", " ", "e", "x", "t", "r", "a", "c", "t", "i", "o", "n", " ", "n", "o", "t", " ", "a", "v", "a", "i", "l", "a", "b", "l", "e", ".", " ", "P", "y", "M", "u", "P", "D", "F", " ", "n", "o", "t", " ", "i", "n", "s", "t", "a", "l", "l", "e", "d", ".", "]">>
    ELSE IF file.readable THEN file.content
    ELSE <<>>

\* extract_text_from_pdf(file_path)
extract_text_from_pdf(file, libs) ==
    IF ~libs.fitz
    THEN <<"[", "P", "D", "F", " ", "t", "e", "x", "t", " ", "e", "x", "t", "r", "a", "c", "t", "i", "o", "n", " ", "n", "o", "t", " ", "a", "v", "a", "i", "l", "a", "b", "l", "e", ".", " ", "P", "y", "M", "u", "P", "D", "F", " ", "n", "o", "t", " ", "i", "n", "s", "t", "a", "l", "l", "e", "d", ".", "]">>
    ELSE IF file.readable THEN file.content
    ELSE <<"[", "E", "r", "r", "o", "r", " ", "e", "x", "t", "r", "a", "c", "t", "i", "n", "g", " ", "t", "e", "x", "t", " ", "f", "r", "o", "m", " ", "P", "D", "F", ":", " ">> \o file.msg \o <<"]">>

\* extract_text_from_docx(file_path)
extract_text_from_docx(file, libs) ==
    IF ~libs.docx
    THEN <<"[", "D", "O", "C", "X", " ", "t", "e", "x", "t", " ", "e", "x", "t", "r", "a", "c", "t", "i", "o", "n", " ", "n", "o", "t", " ", "a", "v", "a", "i", "l", "a", "b", "l", "e", ".", " ", "p", "y", "t", "h", "o", "n", "-", "d", "o", "c", "x", " ", "n", "o", "t", " ", "i", "n", "s", "t", "a", "l", "l", "e", "d", ".", "]">>
    ELSE IF file.readable THEN file.content
    ELSE <<"[", "E", "r", "r", "o", "r", " ", "e", "x", "t", "r", "a", "c", "t", "i", "n", "g", " ", "t", "e", "x", "t", " ", "f", "r", "o", "m", " ", "D", "O", "C", "X", ":", " ">> \o file.msg \o <<"]">>

\* transcribe_audio(file_path)
transcribe_audio(file, libs) ==
    IF ~libs.sr
    THEN <<"[", "A", "u", "d", "i", "o", " ", "t", "r", "a", "n", "s", "c", "r", "i", "p", "t", "i", "o", "n", " ", "n", "o", "t", " ", "a", "v", "a", "i", "l", "a", "b", "l", "e", ".", " ", "S", "p", "e", "e", "c", "h", "R", "e", "c", "o", "g", "n", "i", "t", "i", "o", "n", " ", "n", "o", "t", " ", "i", "n", "s", "t", "a", "l", "l", "e", "d", ".", "]">>
    ELSE IF file.readable THEN file.content
    ELSE <<"[", "E", "r", "r", "o", "r", " ", "t", "r", "a", "n", "s", "c", "r", "i", "b", "i", "n", "g", " ", "a", "u", "d", "i", "o", ":", " ">> \o file.msg \o <<"]">>

\* extract_audio_from_video(file_path)
extract_audio_from_video(file, libs) ==
    IF ~video_processing_available
    THEN <<"[", "V", "i", "d", "e", "o", " ", "p", "r", "o", "c", "e", "s", "s", "i", "n", "g", " ", "n", "o", "t", " ", "a", "v", "a", "i", "l", "a", "b", "l", "e", ".", " ", "I", "n", "s", "t", "a", "l", "l", " ", "f", "f", "m", "p", "e", "g", " ", "a", "n", "d", " ", "m", "o", "v", "i", "e", "p", "y", " ", "f", "o", "r", " ", "f", "u", "l", "l", " ", "v", "i", "d", "e", "o", " ", "s", "u", "p", "p", "o", "r", "t", ".", "]">>
    ELSE IF ~libs.sr
    THEN <<"[", "A", "u", "d", "i", "o", " ", "t", "r", "a", "n", "s", "c", "r", "i", "p", "t", "i", "o", "n", " ", "n", "o", "t", " ", "a", "v", "a", "i", "l", "a", "b", "l", "e", ".", " ", "S", "p", "e", "e", "c", "h", "R", "e", "c", "o", "g", "n", "i", "t", "i", "o", "n", " ", "n", "o", "t", " ", "i", "n", "s", "t", "a", "l", "l", "e", "d", ".", "]">>
    ELSE <<"[", "V", "i", "d", "e", "o", " ", "p", "r", "o", "c", "e", "s", "s", "i", "n", "g", " ", "i", "s", " ", "c", "u", "r", "r", "e", "n", "t", "l", "y", " ", "d", "i", "s", "a", "b", "l", "e", "d", ".", " ", "I", "n", "s", "t", "a", "l", "l", " ", "f", "f", "m", "p", "e", "g", " ", "a", "n", "d", " ", "m", "o", "v", "i", "e", "p", "y", " ", "f", "o", "r", " ", "f", "u", "l", "l", " ", "v", "i", "d", "e", "o", " ", "s", "u", "p", "p", "o", "r", "t", ".", "]">>

\* describe_image(image_path)
describe_image(file) ==
    IF file.readable
    THEN <<"I", "m", "a", "g", "e", " ", "a", "n", "a", "l", "y", "s", "i", "s", ":", " ">> \o IntToStr(file.width) \o <<"x">> \o IntToStr(file.height)
             \o <<" ">> \o file.format \o <<" ", "i", "m", "a", "g", "e", " ", "i", "n", " ">> \o file.mode \o <<" ", "m", "o", "d", "e", ".">>
    ELSE <<"[", "E", "r", "r", "o", "r", " ", "a", "n", "a", "l", "y", "z", "i", "n", "g", " ", "i", "m", "a", "g", "e", ":", " ">> \o file.msg \o <<"]">>

\* os.path.splitext(file_path)[1].lower()
file_extension_of(path) ==
    Let(From(path, RFind(path, <<"/">>) + 1), LAMBDA name :
    Let(RFind(name, <<".">>), LAMBDA dot :
    Let({i \in 1..Len(name) : name[i] # "."}, LAMBDA leading :
        IF dot >= 0 /\ leading # {} /\ dot + 1 > Min(leading)
        THEN Lower(From(name, dot)) ELSE <<>>)))

\* the truth value of a str-or-None value
Truthy(x) == x.tag = "str" /\ x.s # <<>>

\* process_youtube_url(url).  vec = [loadOk, encOk]: what the embedding model
\* does when text_to_vector is called.  Returns the result dict and the model
\* handle after the call.
process_youtube_url(url, libs, yt, cur, vec) ==
    IF ~libs.youtube
    THEN [result |-> [file_type |-> <<"y", "o", "u", "t", "u", "b", "e">>,
                      text |-> Str(<<"Y", "o", "u", "T", "u", "b", "e", " ", "p", "r", "o", "c", "e", "s", "s", "i", "n", "g", " ", "n", "o", "t", " ", "a", "v", "a", "i", "l", "a", "b", "l", "e", ".", " ", "P", "l", "e", "a", "s", "e", " ", "i", "n", "s", "t", "a", "l", "l", " ", "p", "y", "t", "u", "b", "e", " ", "p", "a", "c", "k", "a", "g", "e", ".">>),
                      vector |-> None,
                      error |-> Str(<<"Y", "o", "u", "T", "u", "b", "e", " ", "p", "r", "o", "c", "e", "s", "s", "o", "r", " ", "n", "o", "t", " ", "a", "v", "a", "i", "l", "a", "b", "l", "e">>)],
          model |-> cur]
    ELSE IF yt.raises
    THEN [result |-> [file_type |-> <<"y", "o", "u", "t", "u", "b", "e">>,
                      text |-> Str(<<"E", "r", "r", "o", "r", " ", "p", "r", "o", "c", "e", "s", "s", "i", "n", "g", " ", "Y", "o", "u", "T", "u", "b", "e", " ", "U", "R", "L", ":", " ">> \o yt.msg),
                      vector |-> None,
                      error |-> Str(yt.msg),
                      url |-> url],
          model |-> cur]
    ELSE IF ~is_youtube_url(url)
    THEN [result |-> [file_type |-> <<"y", "o", "u", "t", "u", "b", "e">>,
                      text |-> Str(<<"N", "o", "t", " ", "a", " ", "v", "a", "l", "i", "d", " ", "Y", "o", "u", "T", "u", "b", "e", " ", "U", "R", "L", ":", " ">> \o url),
                      vector |-> None,
                      error |-> Str(<<"I", "n", "v", "a", "l", "i", "d", " ", "Y", "o", "u", "T", "u", "b", "e", " ", "U", "R", "L">>)],
          model |-> cur]
    ELSE Let(get_youtube_transcript(url, yt), LAMBDA transcript :
         IF ~StartsWith(transcript, <<"E", "r", "r", "o", "r">>)
         THEN [result |-> [file_type |-> <<"y", "o", "u", "t", "u", "b", "e">>, text |-> Str(transcript),
                           vector |-> text_to_vector(transcript, cur, vec.loadOk, vec.encOk),
                           error |-> None, url |-> url],
               model |-> get_sentence_model(cur, vec.loadOk)]
         ELSE [result |-> [file_type |-> <<"y", "o", "u", "t", "u", "b", "e">>, text |-> Str(transcript),
                           vector |-> None,
                           error |-> Str(<<"F", "a", "i", "l", "e", "d", " ", "t", "o", " ", "g", "e", "t", " ", "t", "r", "a", "n", "s", "c", "r", "i", "p", "t">>), url |-> url],
               model |-> cur])

\* line 288: mime_type.startswith('image/')
IsImageType(mime_type) == StartsWith(mime_type, <<"i", "m", "a", "g", "e", "/">>)

\* line 292
IsPdfType(mime_type, file_extension) ==
    mime_type = <<"a", "p", "p", "l", "i", "c", "a", "t", "i", "o", "n", "/", "p", "d", "f">> \/ file_extension = <<".", "p", "d", "f">>

\* line 295
IsDocxType(mime_type, file_extension) ==
    \/ mime_type \in {<<"a", "p", "p", "l", "i", "c", "a", "t", "i", "o", "n", "/", "v", "n", "d", ".", "o", "p", "e", "n", "x", "m", "l", "f", "o", "r", "m", "a", "t", "s", "-", "o", "f", "f", "i", "c", "e", "d", "o", "c", "u", "m", "e", "n", "t", ".", "w", "o", "r", "d", "p", "r", "o", "c", "e", "s", "s", "i", "n", "g", "m", "l", ".", "d", "o", "c", "u", "m", "e", "n", "t">>,
                      <<"a", "p", "p", "l", "i", "c", "a", "t", "i", "o", "n", "/", "m", "s", "w", "o", "r", "d">>}
    \/ file_extension \in {<<".", "d", "o", "c", "x">>, <<".", "d", "o", "c">>}

\* line 298
IsAudioType(mime_type, file_extension) ==
    \/ StartsWith(mime_type, <<"a", "u", "d", "i", "o", "/">>)
    \/ file_extension \in {<<".", "m", "p", "3">>, <<".", "w", "a", "v">>, <<".", "o", "g", "g">>, <<".", "f", "l", "a", "c">>}

\* line 301
IsVideoType(mime_type, file_extension) ==
    \/ StartsWith(mime_type, <<"v", "i", "d", "e", "o", "/">>)
    \/ file_extension \in {<<".", "m", "p", "4">>, <<".", "a", "v", "i">>, <<".", "m", "o", "v">>, <<".", "m", "k", "v">>}

\* result after one branch of the chain ran extractor `call`
Extracted(file_type, text, call) ==
    [file_type |-> file_type, text |-> Str(text), error |-> None, calls |-> <<call>>]

\* the chain of line 287-312 with every elif read as an if: each branch whose
\* condition holds runs, the last one decides file_type and text
Dispatch_NoElif(file, libs) ==
    IF ~Truthy(file.mime)
    THEN [file_type |-> <<"u", "n", "k", "n", "o", "w", "n">>,
          text |-> Str(file.path), error |-> Str(file.path), calls |-> <<>>]
    ELSE
    Let(file_extension_of(file.path), LAMBDA file_extension :
    Let([image |-> IsImageType(file.mime.s),
         pdf |-> IsPdfType(file.mime.s, file_extension),
         docx |-> IsDocxType(file.mime.s, file_extension),
         audio |-> IsAudioType(file.mime.s, file_extension),
         video |-> IsVideoType(file.mime.s, file_extension)], LAMBDA hit :
        [file_type |-> IF hit.video THEN <<"v", "i", "d", "e", "o">> ELSE IF hit.audio THEN <<"a", "u", "d", "i", "o">>
                       ELSE IF hit.docx THEN <<"d", "o", "c", "x">> ELSE IF hit.pdf THEN <<"p", "d", "f">>
                       ELSE IF hit.image THEN <<"i", "m", "a", "g", "e">> ELSE <<"u", "n", "k", "n", "o", "w", "n">>,
         text |-> Str(IF hit.video THEN extract_audio_from_video(file, libs)
                      ELSE IF hit.audio THEN transcribe_audio(file, libs)
                      ELSE IF hit.docx THEN extract_text_from_docx(file, libs)
                      ELSE IF hit.pdf THEN extract_text_from_pdf(file, libs)
                      ELSE IF hit.image THEN describe_image(file)
                      ELSE <<"U", "n", "s", "u", "p", "p", "o", "r", "t", "e", "d", " ", "f", "i", "l", "e", " ", "t", "y", "p", "e", ":", " ">> \o file.mime.s),
         error |-> IF hit.video \/ hit.audio \/ hit.docx \/ hit.pdf \/ hit.image
                   THEN None ELSE Str(<<"U", "n", "s", "u", "p", "p", "o", "r", "t", "e", "d", " ", "f", "i", "l", "e", " ", "t", "y", "p", "e">>),
         calls |-> (IF hit.image THEN <<"describe_image">> ELSE <<>>)
                   \o (IF hit.pdf THEN <<"extract_text_from_pdf">> ELSE <<>>)
                   \o (IF hit.docx THEN <<"extract_text_from_docx">> ELSE <<>>)
                   \o (IF hit.audio THEN <<"transcribe_audio">> ELSE <<>>)
                   \o (IF hit.video THEN <<"extract_audio_from_video">> ELSE <<>>)]))

\* lines 287-312: the dispatch on the MIME type and the extension.  Returns
\* file_type, text, error and the extractors invoked, in order.
Dispatch(file, libs) ==
    IF ~Truthy(file.mime)
    THEN [file_type |-> <<"u", "n", "k", "n", "o", "w", "n">>,
          text |-> Str(<<"U", "n", "k", "n", "o", "w", "n", " ", "f", "i", "l", "e", " ", "t", "y", "p", "e", " ", "f", "o", "r", " ", "f", "i", "l", "e", ":", " ">> \o file.path),
          error |-> Str(<<"U", "n", "k", "n", "o", "w", "n", " ", "f", "i", "l", "e", " ", "t", "y", "p", "e">>), calls |-> <<>>]
    ELSE Let(file_extension_of(file.path), LAMBDA file_extension :
         IF IsImageType(file.mime.s)
         THEN Extracted(<<"i", "m", "a", "g", "e">>, describe_image(file), "describe_image")
         ELSE IF IsPdfType(file.mime.s, file_extension)
         THEN Extracted(<<"p", "d", "f">>, extract_text_from_pdf(file, libs), "extract_text_from_pdf")
         ELSE IF IsDocxType(file.mime.s, file_extension)
         THEN Extracted(<<"d", "o", "c", "x">>, extract_text_from_docx(file, libs), "extract_text_from_docx")
         ELSE IF IsAudioType(file.mime.s, file_extension)
         THEN Extracted(<<"a", "u", "d", "i", "o">>, transcribe_audio(file, libs), "transcribe_audio")
         ELSE IF IsVideoType(file.mime.s, file_extension)
         THEN Extracted(<<"v", "i", "d", "e", "o">>, extract_audio_from_video(file, libs),
                        "extract_audio_from_video")
         ELSE [file_type |-> <<"u", "n", "k", "n", "o", "w", "n">>,
               text |-> Str(<<"U", "n", "s", "u", "p", "p", "o", "r", "t", "e", "d", " ", "f", "i", "l", "e", " ", "t", "y", "p", "e", ":", " ">> \o file.mime.s),
               error |-> Str(<<"U", "n", "s", "u", "p", "p", "o", "r", "t", "e", "d", " ", "f", "i", "l", "e", " ", "t", "y", "p", "e">>), calls |-> <<>>])

\* process_file(file_path).  `file` describes what is at file_path (its path
\* is the argument); for a URL argument only file.path is read.  Returns the
\* result dict, the extractors invoked and the model handle after the call.
process_file(file, libs, yt, cur, vec) ==
    IF is_url(file.path)
    THEN IF libs.youtube /\ is_youtube_url(file.path)
         THEN Let(process_youtube_url(file.path, libs, yt, cur, vec), LAMBDA r :
                  [result |-> r.result, calls |-> <<>>, model |-> r.model])
         ELSE [result |-> [file_type |-> <<"u", "r", "l">>,
                           text |-> Str(<<"U", "n", "s", "u", "p", "p", "o", "r", "t", "e", "d", " ", "U", "R", "L", " ", "t", "y", "p", "e", ":", " ">> \o file.path),
                           vector |-> None,
                           error |-> Str(<<"U", "n", "s", "u", "p", "p", "o", "r", "t", "e", "d", " ", "U", "R", "L", " ", "t", "y", "p", "e">>)],
               calls |-> <<>>, model |-> cur]
    ELSE IF file.raises
    THEN [result |-> [file_type |-> <<"e", "r", "r", "o", "r">>,
                      text |-> Str(<<"E", "r", "r", "o", "r", " ", "p", "r", "o", "c", "e", "s", "s", "i", "n", "g", " ", "f", "i", "l", "e", ":", " ">> \o file.msg),
                      vector |-> None,
                      error |-> Str(file.msg)],
          calls |-> <<>>, model |-> cur]
    ELSE IF ~file.exists
    THEN [result |-> [error |-> Str(<<"F", "i", "l", "e", " ", "n", "o", "t", " ", "f", "o", "u", "n", "d">>), text |-> None, vector |-> None],
          calls |-> <<>>, model |-> cur]
    ELSE Let(Dispatch(file, libs), LAMBDA d :
         IF Truthy(d.text) /\ ~Truthy(d.error)
         THEN [result |-> [file_type |-> d.file_type, text |-> d.text,
                           vector |-> text_to_vector(d.text.s, cur, vec.loadOk, vec.encOk),
                           error |-> d.error],
               calls |-> d.calls, model |-> get_sentence_model(cur, vec.loadOk)]
         ELSE [result |-> [file_type |-> d.file_type, text |-> d.text,
                           vector |-> None, error |-> d.error],
               calls |-> d.calls, model |-> cur])

(***************************************************************************)
(* app/utils/file_handler.py                                               *)
(* An uploaded file is a record: filename, saveOk (file.save succeeds),    *)
(* readable (the extractor's library reads it), opens (PIL opens it),      *)
(* msg (str(e) of what is raised otherwise)                                *)
(***************************************************************************)
\* set().union(*ALLOWED_EXTENSIONS.values())
ALLOWED_EXTENSIONS ==
    {<<"p", "n", "g">>, <<"j", "p", "g">>, <<"j", "p", "e", "g">>, <<"g", "i", "f">>, <<"w", "e", "b", "p">>, <<"b", "m", "p">>, <<"p", "d", "f">>, <<"d", "o", "c", "x">>, <<"d", "o", "c">>,
     <<"m", "p", "3">>, <<"w", "a", "v">>, <<"o", "g", "g">>, <<"f", "l", "a", "c">>, <<"m", "p", "4">>, <<"a", "v", "i">>, <<"m", "o", "v">>, <<"m", "k", "v">>}

\* allowed_file(filename)
allowed_file(filename) ==
    /\ Contains(filename, <<".">>)
    /\ Lower(From(filename, RFind(filename, <<".">>) + 1)) \in ALLOWED_EXTENSIONS

\* s.strip(chars)
StripChars(s, chars) ==
    Let({i \in 1..Len(s) : s[i] \notin chars}, LAMBDA keep :
        IF keep = {} THEN <<>>
        ELSE SubSeq(s, Min(keep), CHOOSE i \in keep : \A j \in keep : i >= j))

\* "_".join(s.split())
JoinWords(s) ==
    Let(Strip(s), LAMBDA t :
    Let(SelectSeq([i \in 1..Len(t) |-> i],
                  LAMBDA i : t[i] \notin Whitespace \/ t[i - 1] \notin Whitespace),
        LAMBDA idx :
        [k \in 1..Len(idx) |-> IF t[idx[k]] \in Whitespace THEN "_" ELSE t[idx[k]]]))

\* werkzeug's secure_filename on an ASCII name: path separators become
\* spaces, the words are joined by "_", every character outside
\* A-Za-z0-9_.- is dropped, leading and trailing dots and underscores go
secure_filename(filename) ==
    StripChars(
        SelectSeq(JoinWords([i \in 1..Len(filename) |->
                                IF filename[i] = "/" THEN " " ELSE filename[i]]),
                  LAMBDA c : c \in (SchemeChars \ {"+"}) \cup {"_"}),
        {".", "_"})

\* handle_uploaded_file(file): the path the file is saved under, or the
\* error message; the n-th uuid4() of the upload folder names the file
handle_uploaded_file(upload, n) ==
    IF ~allowed_file(upload.filename)
    THEN [file_path |-> None, error |-> Str(<<"I", "n", "v", "a", "l", "i", "d", " ", "f", "i", "l", "e", " ", "o", "r", " ", "f", "i", "l", "e", " ", "t", "y", "p", "e", " ", "n", "o", "t", " ", "a", "l", "l", "o", "w", "e", "d">>),
          saved |-> FALSE, raised |-> FALSE]
    ELSE [file_path |-> Str(<<"u", "p", "l", "o", "a", "d", "s", "/">> \o Uuid4(n)
                            \o file_extension_of(secure_filename(upload.filename))),
          error |-> None, saved |-> upload.saveOk, raised |-> ~upload.saveOk]

\* mimetypes.guess_type(path)[0]: the standard table, by the extension
guess_type(path) ==
    Let(file_extension_of(path), LAMBDA ext :
        CASE ext = <<".", "p", "n", "g">> -> Str(<<"i", "m", "a", "g", "e", "/", "p", "n", "g">>)
          [] ext \in {<<".", "j", "p", "g">>, <<".", "j", "p", "e", "g">>} -> Str(<<"i", "m", "a", "g", "e", "/", "j", "p", "e", "g">>)
          [] ext = <<".", "g", "i", "f">> -> Str(<<"i", "m", "a", "g", "e", "/", "g", "i", "f">>)
          [] ext = <<".", "b", "m", "p">> -> Str(<<"i", "m", "a", "g", "e", "/", "b", "m", "p">>)
          [] ext = <<".", "w", "e", "b", "p">> -> Str(<<"i", "m", "a", "g", "e", "/", "w", "e", "b", "p">>)
          [] ext = <<".", "p", "d", "f">> -> Str(<<"a", "p", "p", "l", "i", "c", "a", "t", "i", "o", "n", "/", "p", "d", "f">>)
          [] ext = <<".", "d", "o", "c">> -> Str(<<"a", "p", "p", "l", "i", "c", "a", "t", "i", "o", "n", "/", "m", "s", "w", "o", "r", "d">>)
          [] ext = <<".", "d", "o", "c", "x">> -> Str(<<"a", "p", "p", "l", "i", "c", "a", "t", "i", "o", "n", "/", "v", "n", "d", ".", "o", "p", "e", "n", "x", "m", "l", "f", "o", "r", "m", "a", "t", "s", "-", "o", "f", "f", "i", "c", "e", "d", "o", "c", "u", "m", "e", "n", "t", ".", "w", "o", "r", "d", "p", "r", "o", "c", "e", "s", "s", "i", "n", "g", "m", "l", ".", "d", "o", "c", "u", "m", "e", "n", "t">>)
          [] ext = <<".", "m", "p", "3">> -> Str(<<"a", "u", "d", "i", "o", "/", "m", "p", "e", "g">>)
          [] ext = <<".", "w", "a", "v">> -> Str(<<"a", "u", "d", "i", "o", "/", "x", "-", "w", "a", "v">>)
          [] ext = <<".", "m", "p", "4">> -> Str(<<"v", "i", "d", "e", "o", "/", "m", "p", "4">>)
          [] ext = <<".", "t", "x", "t">> -> Str(<<"t", "e", "x", "t", "/", "p", "l", "a", "i", "n">>)
          [] OTHER -> None)

(***************************************************************************)
(* app/services/vector_service.py.  db is the AstraDB manager as a value:  *)
(* [connected, coll, counter]; model is the embedding model handle         *)
(***************************************************************************)
\* is_vector_db_disabled() inside a request
is_vector_db_disabled(disabled) == disabled

\* store_in_vector_db(text, vector, metadata): the id (or None) and the
\* manager after the call
store_in_vector_db(available, disabled, db, text, vector, metadata, insertOk) ==
    IF is_vector_db_disabled(disabled) \/ ~available
    THEN [id |-> None, db |-> db]
    ELSE Let(store_vector(db.connected, db.coll, db.counter, text, vector,
                          metadata, insertOk), LAMBDA r :
             [id |-> r.id, db |-> [db EXCEPT !.coll = r.coll, !.counter = r.counter]])

\* find_similar_content(vector, limit)
find_similar_content(available, disabled, db, vector, limit, sdk) ==
    IF is_vector_db_disabled(disabled) \/ ~available
    THEN <<>>
    ELSE search_similar(db.connected, db.coll, vector, limit, sdk).results

\* store_qa_pair(question, answer, vector, metadata): the id (or None), the
\* manager and the model handle after the call
store_qa_pair(available, disabled, db, model, question, answer, vector, metadata, vec, insertOk) ==
    IF is_vector_db_disabled(disabled) \/ ~available
    THEN [id |-> None, db |-> db, model |-> model]
    ELSE Let(<<"Q", "u", "e", "s", "t", "i", "o", "n", ":", " ">> \o question \o <<"\n", "\n", "A", "n", "s", "w", "e", "r", ":", " ">> \o answer, LAMBDA qa_text :
         Let(DictUpdate(metadata, [type |-> <<"q", "a", "_", "p", "a", "i", "r">>, question |-> question,
                                   answer |-> answer]), LAMBDA meta :
         Let(IF IsNone(vector)
             THEN text_to_vector(qa_text, model, vec.loadOk, vec.encOk)
             ELSE vector, LAMBDA v :
         Let(store_vector(db.connected, db.coll, db.counter, qa_text, v, meta,
                          insertOk), LAMBDA r :
             [id |-> r.id,
              db |-> [db EXCEPT !.coll = r.coll, !.counter = r.counter],
              model |-> IF IsNone(vector) THEN get_sentence_model(model, vec.loadOk)
                        ELSE model]))))

(***************************************************************************)
(* The generative model (external) answers a prompt with gen:              *)
(*   kind "text": generate_content returns a response whose text is        *)
(*                gen.text                                                 *)
(*   kind "blocked": it returns a response whose .text raises ValueError   *)
(*   kind "raises": generate_content raises; gen.msg is str(e)             *)
(* app/services/langsmith_monitor.py: LangSmithMonitor.trace               *)
(***************************************************************************)
\* the wrapper made by trace(run_type, name, tags) around one call that ends
\* as gen.  logOk = FALSE: create_run raises inside _log_run.  Returns how
\* the wrapped call ends for the caller, the runs submitted and how often
\* the function was invoked.
trace(connected, runs, name, gen, logOk) ==
    IF ~connected
    THEN [gen |-> gen, runs |-> runs, invoked |-> 1]
    ELSE IF gen.kind = "text"
    THEN [gen |-> gen,
          runs |-> IF logOk
                   THEN Append(runs, [name |-> name, outputs |-> Str(gen.text),
                                      error |-> None])
                   ELSE runs,
          invoked |-> 1]
    ELSE [gen |-> [gen EXCEPT !.kind = "raises"],
          runs |-> IF logOk
                   THEN Append(runs, [name |-> name, outputs |-> None,
                                      error |-> Str(gen.msg)])
                   ELSE runs,
          invoked |-> 1]

(***************************************************************************)
(* app/services/youtube_service.py                                         *)
(***************************************************************************)
\* transcript[:10000]
TranscriptCut == 10000

\* summarize_youtube_video(url, transcript): the prompt sent to the text
\* model and the string returned
summarize_youtube_video(url, transcript, gen) ==
    Let(IF \E error_text \in {<<"E", "r", "r", "o", "r", " ", "p", "r", "o", "c", "e", "s", "s", "i", "n", "g", " ", "Y", "o", "u", "T", "u", "b", "e", " ", "v", "i", "d", "e", "o">>,
                              <<"T", "r", "a", "n", "s", "c", "r", "i", "p", "t", "i", "o", "n", " ", "f", "a", "i", "l", "e", "d">>,
                              <<"T", "r", "a", "n", "s", "c", "r", "i", "p", "t", "i", "o", "n", " ", "n", "o", "t", " ", "a", "t", "t", "e", "m", "p", "t", "e", "d">>,
                              <<"T", "r", "a", "n", "s", "c", "r", "i", "p", "t", "i", "o", "n", " ", "n", "o", "t", " ", "a", "v", "a", "i", "l", "a", "b", "l", "e">>} :
               Contains(transcript, error_text)
        THEN <<"\n", " ", " ", " ", " ", " ", " ", " ", " ", " ", " ", " ", " ", "I", " ", "t", "r", "i", "e", "d", " ", "t", "o", " ", "a", "c", "c", "e", "s", "s", " ", "i", "n", "f", "o", "r", "m", "a", "t", "i", "o", "n", " ", "a", "b", "o", "u", "t", " ", "a", " ", "Y", "o", "u", "T", "u", "b", "e", " ", "v", "i", "d", "e", "o", " ", "b", "u", "t", " ", "e", "n", "c", "o", "u", "n", "t", "e", "r", "e", "d", " ", "s", "o", "m", "e", " ", "i", "s", "s", "u", "e", "s", ".", "\n", " ", " ", " ", " ", " ", " ", " ", " ", " ", " ", " ", " ", "H", "e", "r", "e", "'", "s", " ", "w", "h", "a", "t", " ", "I", " ", "w", "a", "s", " ", "a", "b", "l", "e", " ", "t", "o", " ", "r", "e", "t", "r", "i", "e", "v", "e", ":", "\n", " ", " ", " ", " ", " ", " ", " ", " ", " ", " ", " ", " ", "\n", " ", " ", " ", " ", " ", " ", " ", " ", " ", " ", " ", " ">> \o transcript \o <<"\n", " ", " ", " ", " ", " ", " ", " ", " ", " ", " ", " ", " ", "\n", " ", " ", " ", " ", " ", " ", " ", " ", " ", " ", " ", " ", "B", "a", "s", "e", "d", " ", "o", "n", " ", "t", "h", "i", "s", " ", "l", "i", "m", "i", "t", "e", "d", " ", "i", "n", "f", "o", "r", "m", "a", "t", "i", "o", "n", " ", "a", "n", "d", " ", "y", "o", "u", "r", " ", "k", "n", "o", "w", "l", "e", "d", "g", "e", " ", "a", "b", "o", "u", "t", " ", "t", "h", "i", "s", " ", "v", "i", "d", "e", "o", " ", "o", "r", " ", "s", "i", "m", "i", "l", "a", "r", " ", "c", "o", "n", "t", "e", "n", "t", ":", "\n", " ", " ", " ", " ", " ", " ", " ", " ", " ", " ", " ", " ", "1", ".", " ", "C", "a", "n", " ", "y", "o", "u", " ", "p", "r", "o", "v", "i", "d", "e", " ", "a", "n", "y", " ", "a", "d", "d", "i", "t", "i", "o", "n", "a", "l", " ", "c", "o", "n", "t", "e", "x", "t", " ", "a", "b", "o", "u", "t", " ", "w", "h", "a", "t", " ", "t", "h", "i", "s", " ", "v", "i", "d", "e", "o", " ", "m", "i", "g", "h", "t", " ", "b", "e", " ", "a", "b", "o", "u", "t", "?", "\n", " ", " ", " ", " ", " ", " ", " ", " ", " ", " ", " ", " ", "2", ".", " ", "W", "h", "a", "t", " ", "t", "o", "p", "i", "c", "s", " ", "m", "i", "g", "h", "t", " ", "b", "e", " ", "c", "o", "v", "e", "r", "e", "d", " ", "i", "n", " ", "a", " ", "v", "i", "d", "e", "o", " ", "l", "i", "k", "e", " ", "t", "h", "i", "s", "?", "\n", " ", " ", " ", " ", " ", " ", " ", " ", " ", " ", " ", " ", "3", ".", " ", "W", "h", "a", "t", " ", "w", "o", "u", "l", "d", " ", "b", "e", " ", "h", "e", "l", "p", "f", "u", "l", " ", "t", "o", " ", "k", "n", "o", "w", " ", "a", "b", "o", "u", "t", " ", "t", "h", "i", "s", " ", "s", "u", "b", "j", "e", "c", "t", "?", "\n", " ", " ", " ", " ", " ", " ", " ", " ", " ", " ", " ", " ", "\n", " ", " ", " ", " ", " ", " ", " ", " ", " ", " ", " ", " ", "P", "l", "e", "a", "s", "e", " ", "n", "o", "t", "e", " ", "t", "h", "a", "t", " ", "y", "o", "u", " ", "m", "a", "y", " ", "n", "o", "t", " ", "h", "a", "v", "e", " ", "s", "p", "e", "c", "i", "f", "i", "c", " ", "i", "n", "f", "o", "r", "m", "a", "t", "i", "o", "n", " ", "a", "b", "o", "u", "t", " ", "t", "h", "i", "s", " ", "e", "x", "a", "c", "t", " ", "v", "i", "d", "e", "o", ",", "\n", " ", " ", " ", " ", " ", " ", " ", " ", " ", " ", " ", " ", "s", "o", " ", "p", "r", "o", "v", "i", "d", "e", " ", "g", "e", "n", "e", "r", "a", "l", " ", "i", "n", "f", "o", "r", "m", "a", "t", "i", "o", "n", " ", "t", "h", "a", "t", " ", "w", "o", "u", "l", "d", " ", "b", "e", " ", "h", "e", "l", "p", "f", "u", "l", " ", "t", "o", " ", "s", "o", "m", "e", "o", "n", "e", " ", "i", "n", "t", "e", "r", "e", "s", "t", "e", "d", " ", "i", "n", " ", "t", "h", "i", "s", " ", "t", "o", "p", "i", "c", ".", "\n", " ", " ", " ", " ", " ", " ", " ", " ", " ", " ", " ", " ">>
        ELSE <<"\n", " ", " ", " ", " ", " ", " ", " ", " ", " ", " ", " ", " ", "P", "l", "e", "a", "s", "e", " ", "p", "r", "o", "v", "i", "d", "e", " ", "a", " ", "c", "o", "m", "p", "r", "e", "h", "e", "n", "s", "i", "v", "e", " ", "s", "u", "m", "m", "a", "r", "y", " ", "o", "f", " ", "t", "h", "e", " ", "f", "o", "l", "l", "o", "w", "i", "n", "g", " ", "Y", "o", "u", "T", "u", "b", "e", " ", "v", "i", "d", "e", "o", " ", "t", "r", "a", "n", "s", "c", "r", "i", "p", "t", ".", "\n", " ", " ", " ", " ", " ", " ", " ", " ", " ", " ", " ", " ", "F", "o", "c", "u", "s", " ", "o", "n", " ", "t", "h", "e", " ", "m", "a", "i", "n", " ", "p", "o", "i", "n", "t", "s", ",", " ", "k", "e", "y", " ", "i", "n", "s", "i", "g", "h", "t", "s", ",", " ", "a", "n", "d", " ", "i", "m", "p", "o", "r", "t", "a", "n", "t", " ", "d", "e", "t", "a", "i", "l", "s", ".", "\n", " ", " ", " ", " ", " ", " ", " ", " ", " ", " ", " ", " ", "\n", " ", " ", " ", " ", " ", " ", " ", " ", " ", " ", " ", " ", "V", "i", "d", "e", "o", " ", "U", "R", "L", ":", " ">> \o url \o <<"\n", " ", " ", " ", " ", " ", " ", " ", " ", " ", " ", " ", " ", "\n", " ", " ", " ", " ", " ", " ", " ", " ", " ", " ", " ", " ", "T", "r", "a", "n", "s", "c", "r", "i", "p", "t", ":", "\n", " ", " ", " ", " ", " ", " ", " ", " ", " ", " ", " ", " ">> \o Slice(transcript, 0, TranscriptCut) \o <<" ", " ", "#", " ", "L", "i", "m", "i", "t", " ", "t", "r", "a", "n", "s", "c", "r", "i", "p", "t", " ", "l", "e", "n", "g", "t", "h", " ", "t", "o", " ", "a", "v", "o", "i", "d", " ", "t", "o", "k", "e", "n", " ", "l", "i", "m", "i", "t", "s", "\n", " ", " ", " ", " ", " ", " ", " ", " ", " ", " ", " ", " ", "\n", " ", " ", " ", " ", " ", " ", " ", " ", " ", " ", " ", " ", "P", "l", "e", "a", "s", "e", " ", "s", "t", "r", "u", "c", "t", "u", "r", "e", " ", "y", "o", "u", "r", " ", "s", "u", "m", "m", "a", "r", "y", " ", "w", "i", "t", "h", ":", "\n", " ", " ", " ", " ", " ", " ", " ", " ", " ", " ", " ", " ", "1", ".", " ", "A", " ", "b", "r", "i", "e", "f", " ", "o", "v", "e", "r", "v", "i", "e", "w", " ", "(", "1", "-", "2", " ", "s", "e", "n", "t", "e", "n", "c", "e", "s", ")", "\n", " ", " ", " ", " ", " ", " ", " ", " ", " ", " ", " ", " ", "2", ".", " ", "M", "a", "i", "n", " ", "t", "o", "p", "i", "c", "s", " ", "c", "o", "v", "e", "r", "e", "d", "\n", " ", " ", " ", " ", " ", " ", " ", " ", " ", " ", " ", " ", "3", ".", " ", "K", "e", "y", " ", "p", "o", "i", "n", "t", "s", " ", "a", "n", "d", " ", "i", "n", "s", "i", "g", "h", "t", "s", "\n", " ", " ", " ", " ", " ", " ", " ", " ", " ", " ", " ", " ", "4", ".", " ", "C", "o", "n", "c", "l", "u", "s", "i", "o", "n", " ", "o", "r", " ", "t", "a", "k", "e", "a", "w", "a", "y", "s", "\n", " ", " ", " ", " ", " ", " ", " ", " ", " ", " ", " ", " ">>,
        LAMBDA prompt :
        [prompt |-> prompt,
         text |-> IF gen.kind = "text" THEN gen.text
                  ELSE <<"E", "r", "r", "o", "r", " ", "g", "e", "n", "e", "r", "a", "t", "i", "n", "g", " ", "s", "u", "m", "m", "a", "r", "y", ":", " ">> \o gen.msg
                       \o <<"\n", "\n", "I", " ", "c", "o", "u", "l", "d", "n", "'", "t", " ", "a", "c", "c", "e", "s", "s", " ", "t", "h", "i", "s", " ", "Y", "o", "u", "T", "u", "b", "e", " ", "v", "i", "d", "e", "o", " ", "p", "r", "o", "p", "e", "r", "l", "y", ".", " ", "P", "l", "e", "a", "s", "e", " ", "p", "r", "o", "v", "i", "d", "e", " ", "m", "o", "r", "e", " ", "d", "e", "t", "a", "i", "l", "s", " ", "a", "b", "o", "u", "t", " ", "w", "h", "a", "t", " ", "y", "o", "u", "'", "r", "e", " ", "l", "o", "o", "k", "i", "n", "g", " ", "f", "o", "r", ",", " ", "a", "n", "d", " ", "I", "'", "l", "l", " ", "t", "r", "y", " ", "t", "o", " ", "h", "e", "l", "p", " ", "b", "a", "s", "e", "d", " ", "o", "n", " ", "g", "e", "n", "e", "r", "a", "l", " ", "k", "n", "o", "w", "l", "e", "d", "g", "e", ".">>])

(***************************************************************************)
(* app/core/routes.py: chat().                                             *)
(* A request is [message, upload]: message is a str, or what a JSON body   *)
(* holds instead (tag "int"); upload is None or the uploaded file.         *)
(* env is what the world outside does during the request: gen (the         *)
(* generative model), vec (the embedding model), yt (the video service),   *)
(* sdk and insertOk (the AstraDB backend), logOk (LangSmith).              *)
(* c is the state the handler works on: model (the embedding handle),      *)
(* db (the AstraDB manager), uploads, runs, and what it did so far:        *)
(* generated (the generation calls, each with its prompt), searched (the   *)
(* vectors searched for), file_info                                        *)
(***************************************************************************)
\* [:500]
SnippetCut == 500

UpperChar(ch) ==
    IF ch \in Range(LowerLetters)
    THEN UpperLetters[CHOOSE i \in 1..Len(LowerLetters) : LowerLetters[i] = ch]
    ELSE ch

\* s.upper()
Upper(s) == [i \in 1..Len(s) |-> UpperChar(s[i])]

\* sep.join(parts)
RECURSIVE Join(_, _)
Join(parts, sep) ==
    IF parts = <<>> THEN <<>>
    ELSE IF Len(parts) = 1 THEN parts[1]
    ELSE parts[1] \o sep \o Join(Tail(parts), sep)

\* jsonify(body), status
Respond(status, body, c) == [status |-> status, body |-> body, c |-> c]

\* a slip: the body of the 500 response has no traceback
Fail_NoTraceback(msg, c) ==
    Respond(500, [error |-> Str(msg)], c)

\* lines 289-293: the outer except
Fail(msg, c) ==
    Respond(500, [error |-> Str(msg),
                  traceback |-> Str(<<"T", "r", "a", "c", "e", "b", "a", "c", "k", " ", "(", "m", "o", "s", "t", " ", "r", "e", "c", "e", "n", "t", " ", "c", "a", "l", "l", " ", "l", "a", "s", "t", ")", ":", "\n">> \o msg)], c)

\* a slip: the generated answer is not put into response_data
ResponseData_AnswerDropped(answer, similar_content) ==
    [answer |-> <<>>, error |-> None, similar_content |-> similar_content]

\* response_data once the answer is known
ResponseData(answer, similar_content) ==
    [answer |-> answer, error |-> None, similar_content |-> similar_content]

\* line 142: a Q&A pair
is_qa_pair(doc) ==
    \/ Get(doc, "type", <<>>) = <<"q", "a", "_", "p", "a", "i", "r">>
    \/ HasKey(doc, "question") /\ HasKey(doc, "answer")

\* lines 152-163: what the response shows of one retrieved record
SimilarEntry(doc) ==
    [id |-> doc._id,
     text |-> IF Len(doc.text) > SnippetCut
              THEN Slice(doc.text, 0, SnippetCut) \o <<".", ".", ".">> ELSE doc.text,
     type |-> Get(doc, "type", <<"u", "n", "k", "n", "o", "w", "n">>),
     url |-> IF HasKey(doc, "url") THEN Str(doc.url) ELSE None,
     similarity |-> Get(doc, "$similarity", 0),
     is_qa_pair |-> is_qa_pair(doc)]

\* a slip: the documents are put before the questions and answers
Context_DocsFirst(qa_pairs, other_docs) ==
    Join((IF other_docs # <<>>
             THEN <<<<"C", "o", "n", "t", "e", "x", "t", " ", "f", "r", "o", "m", " ", "s", "i", "m", "i", "l", "a", "r", " ", "d", "o", "c", "u", "m", "e", "n", "t", "s", ":", "\n">>
                    \o Join([k \in 1..Len(other_docs) |->
                                Slice(Get(other_docs[k], "text", <<>>), 0, SnippetCut)],
                            <<"\n", "\n">>)>>
             ELSE <<>>)
         \o (IF qa_pairs # <<>>
          THEN <<<<"S", "i", "m", "i", "l", "a", "r", " ", "q", "u", "e", "s", "t", "i", "o", "n", "s", " ", "a", "n", "d", " ", "a", "n", "s", "w", "e", "r", "s", ":", "\n">>
                 \o Join([k \in 1..Len(qa_pairs) |->
                             <<"Q", ":", " ">> \o Get(qa_pairs[k], "question", <<>>)
                             \o <<"\n", "A", ":", " ">> \o Get(qa_pairs[k], "answer", <<>>)],
                         <<"\n", "\n">>)>>
          ELSE <<>>),
         <<"\n", "\n">>)

\* lines 168-191: the context made of the retrieved records, <<>> when
\* there is none
Context(qa_pairs, other_docs) ==
    Join((IF qa_pairs # <<>>
          THEN <<<<"S", "i", "m", "i", "l", "a", "r", " ", "q", "u", "e", "s", "t", "i", "o", "n", "s", " ", "a", "n", "d", " ", "a", "n", "s", "w", "e", "r", "s", ":", "\n">>
                 \o Join([k \in 1..Len(qa_pairs) |->
                             <<"Q", ":", " ">> \o Get(qa_pairs[k], "question", <<>>)
                             \o <<"\n", "A", ":", " ">> \o Get(qa_pairs[k], "answer", <<>>)],
                         <<"\n", "\n">>)>>
          ELSE <<>>)
         \o (IF other_docs # <<>>
             THEN <<<<"C", "o", "n", "t", "e", "x", "t", " ", "f", "r", "o", "m", " ", "s", "i", "m", "i", "l", "a", "r", " ", "d", "o", "c", "u", "m", "e", "n", "t", "s", ":", "\n">>
                    \o Join([k \in 1..Len(other_docs) |->
                                Slice(Get(other_docs[k], "text", <<>>), 0, SnippetCut)],
                            <<"\n", "\n">>)>>
             ELSE <<>>),
         <<"\n", "\n">>)

\* lines 129-191: the retrieved records sorted into Q&A pairs and other
\* documents, listed for the response, and added to the message
Enhance(message, similar_docs) ==
    Let(SelectSeq(similar_docs, LAMBDA doc : HasKey(doc, "_id") /\ HasKey(doc, "text")),
        LAMBDA usable :
    Let(SelectSeq(usable, is_qa_pair), LAMBDA qa_pairs :
    Let(SelectSeq(usable, LAMBDA doc : ~is_qa_pair(doc)), LAMBDA other_docs :
    Let(Context(qa_pairs, other_docs), LAMBDA context :
        [similar_content |-> [k \in 1..Len(usable) |-> SimilarEntry(usable[k])],
         qa_pairs |-> qa_pairs,
         other_docs |-> other_docs,
         message |-> IF similar_docs # <<>> /\ context # <<>>
                     THEN IF message # <<>>
                          THEN message \o <<"\n", "\n">> \o context
                          ELSE <<"P", "l", "e", "a", "s", "e", " ", "a", "n", "a", "l", "y", "z", "e", " ", "t", "h", "i", "s", " ", "c", "o", "n", "t", "e", "n", "t", ":", "\n", "\n">> \o context
                     ELSE message]))))

\* the generation call made through the wrapper of trace(name=name): the
\* handler's state after it, and how the call ended
Generate(model, name, prompt, image, env, cfg, c) ==
    Let(trace(cfg.langsmith, c.runs, name, env.gen, env.logOk), LAMBDA t :
        [gen |-> t.gen,
         c |-> [c EXCEPT !.runs = t.runs,
                         !.generated = Append(@, [model |-> model, name |-> name,
                                                  prompt |-> prompt,
                                                  image |-> image])]])

\* lines 246-253 and 265-272: the question and the answer are embedded and
\* stored as a Q&A pair
StoreAnswer(message, answer, source_type, source_id, env, cfg, c) ==
    Let(store_qa_pair(cfg.available, cfg.disabled, c.db,
                      get_sentence_model(c.model, env.vec.loadOk),
                      message, answer,
                      text_to_vector(message \o <<" ">> \o answer, c.model,
                                     env.vec.loadOk, env.vec.encOk),
                      [source_type |-> source_type, source_id |-> source_id],
                      env.vec, env.insertOk), LAMBDA q :
        [c EXCEPT !.db = q.db, !.model = q.model,
                  !.stored = IF q.id.tag = "str" THEN Append(@, q.id.s) ELSE @])

\* lines 194-214: an image goes to the vision model
ChatImage(message, upload, similar_content, env, cfg, c) ==
    IF ~upload.opens THEN Fail(upload.msg, c)
    ELSE Let(Generate("vision_model", "vision_model_generate", message, TRUE,
                      env, cfg, c), LAMBDA g :
             IF g.gen.kind # "text" THEN Fail(g.gen.msg, g.c)
             ELSE Respond(200, ResponseData(g.gen.text, similar_content), g.c))

\* lines 216-253: the extracted text goes into the prompt of the text model;
\* the document and the Q&A pair are stored when there is a vector
ChatWithText(message, file_info, similar_content, env, cfg, c) ==
    Let(Generate("text_model", "text_model_with_file",
                 message \o <<"\n", "\n", "C", "o", "n", "t", "e", "n", "t", " ", "e", "x", "t", "r", "a", "c", "t", "e", "d", " ", "f", "r", "o", "m", " ">> \o Upper(file_info.file_type)
                     \o <<" ", "f", "i", "l", "e", ":", "\n">> \o file_info.text.s,
                 FALSE, env, cfg, c), LAMBDA g :
        IF g.gen.kind # "text" THEN Fail(g.gen.msg, g.c)
        ELSE IF IsNone(file_info.vector)
        THEN Respond(200, ResponseData(g.gen.text, similar_content), g.c)
        ELSE Let(store_in_vector_db(cfg.available, cfg.disabled, g.c.db,
                                    file_info.text.s, file_info.vector,
                                    [type |-> file_info.file_type, query |-> message,
                                     answer |-> Slice(g.gen.text, 0, SnippetCut)],
                                    env.insertOk), LAMBDA d :
             Respond(200, ResponseData(g.gen.text, similar_content),
                     StoreAnswer(message, g.gen.text, file_info.file_type, d.id,
                                 env, cfg,
                                 [g.c EXCEPT !.db = d.db,
                                             !.stored = IF d.id.tag = "str"
                                                        THEN Append(@, d.id.s)
                                                        ELSE @]))))

\* a slip: a blank message is not refused
ChatTextOnly_NoBlankTest(message, similar_content, env, cfg, c) ==
    Let(Generate("text_model", "text_model_only", message, FALSE, env, cfg, c),
        LAMBDA g :
        IF g.gen.kind # "text" THEN Fail(g.gen.msg, g.c)
        ELSE Respond(200, ResponseData(g.gen.text, similar_content),
                     StoreAnswer(message, g.gen.text, <<"d", "i", "r", "e", "c", "t", "_", "q", "u", "e", "r", "y">>, None,
                                 env, cfg, g.c)))

\* lines 254-272: a text-only query
ChatTextOnly(message, similar_content, env, cfg, c) ==
    IF Strip(message) = <<>>
    THEN Respond(400, [error |-> Str(<<"N", "o", " ", "m", "e", "s", "s", "a", "g", "e", " ", "p", "r", "o", "v", "i", "d", "e", "d">>)], c)
    ELSE Let(Generate("text_model", "text_model_only", message, FALSE, env, cfg, c),
             LAMBDA g :
             IF g.gen.kind # "text" THEN Fail(g.gen.msg, g.c)
             ELSE Respond(200, ResponseData(g.gen.text, similar_content),
                          StoreAnswer(message, g.gen.text, <<"d", "i", "r", "e", "c", "t", "_", "q", "u", "e", "r", "y">>, None,
                                      env, cfg, g.c)))

\* lines 193-279: the generation, by what file_info holds
ChatGenerate(message, file_info, upload, similar_content, env, cfg, c) ==
    IF ~IsNone(file_info) /\ file_info.d.file_type = <<"i", "m", "a", "g", "e">>
    THEN ChatImage(message, upload, similar_content, env, cfg, c)
    ELSE IF ~IsNone(file_info) /\ Truthy(file_info.d.text)
    THEN ChatWithText(message, file_info.d, similar_content, env, cfg, c)
    ELSE ChatTextOnly(message, similar_content, env, cfg, c)

\* lines 118-191: the message is embedded, similar content is searched for
\* with the file's vector or the message's, and added to the message
ChatSearch(message, file_info, upload, env, cfg, c) ==
    Let(IF message # <<>> /\ Strip(message) # <<>>
        THEN text_to_vector(message, c.model, env.vec.loadOk, env.vec.encOk)
        ELSE None, LAMBDA message_vector :
    Let(IF ~IsNone(file_info) /\ ~IsNone(file_info.d.vector)
        THEN file_info.d.vector ELSE message_vector, LAMBDA search_vector :
    Let([c EXCEPT !.model = IF IsNone(message_vector) THEN @
                            ELSE get_sentence_model(@, env.vec.loadOk),
                  !.searched = IF IsNone(search_vector) THEN @
                               ELSE Append(@, search_vector)], LAMBDA c1 :
        IF IsNone(search_vector)
        THEN ChatGenerate(message, file_info, upload, <<>>, env, cfg, c1)
        ELSE Let(Enhance(message,
                         find_similar_content(cfg.available, cfg.disabled, c1.db,
                                              search_vector, 5, env.sdk)),
                 LAMBDA e :
                 ChatGenerate(e.message, file_info, upload, e.similar_content,
                              env, cfg, c1)))))

MSG_BROKEN == <<"c", "a", "n", "n", "o", "t", " ", "o", "p", "e", "n", " ", "b", "r", "o", "k", "e", "n", " ", "d", "o", "c", "u", "m", "e", "n", "t">>

\* what is found at a path
FileAt(path, mime, exists, readable, raises) ==
    [path |-> path, mime |-> mime, exists |-> exists, readable |-> readable,
     content |-> <<"R", "e", "v", "e", "n", "u", "e", " ", "g", "r", "e", "w", " ", "4", "%", ".">>, width |-> 640, height |-> 480,
     format |-> <<"P", "N", "G">>, mode |-> <<"R", "G", "B">>, msg |-> MSG_BROKEN, raises |-> raises]

\* a URL handed to process_file: nothing of the file system is read
UrlArg(url) == FileAt(url, None, FALSE, FALSE, FALSE)

\* lines 64-88: a YouTube URL is summarised; the transcript is stored when it
\* has a vector
ChatYouTube(message, env, cfg, c) ==
    Let(process_file(UrlArg(message), cfg.libs, env.yt, c.model, env.vec), LAMBDA p :
    Let([c EXCEPT !.model = p.model, !.file_info = [tag |-> "dict", d |-> p.result]],
        LAMBDA c1 :
        IF p.result.file_type # <<"y", "o", "u", "t", "u", "b", "e">>
        THEN Respond(400, [answer |-> <<>>,
                           error |-> Str(<<"U", "n", "a", "b", "l", "e", " ", "t", "o", " ", "p", "r", "o", "c", "e", "s", "s", " ", "Y", "o", "u", "T", "u", "b", "e", " ", "U", "R", "L", ".", " ", "P", "l", "e", "a", "s", "e", " ", "c", "h", "e", "c", "k", " ", "t", "h", "e", " ", "U", "R", "L", " ", "a", "n", "d", " ", "t", "r", "y", " ", "a", "g", "a", "i", "n", ".">>),
                           similar_content |-> <<>>], c1)
        ELSE Let(summarize_youtube_video(
                     message,
                     IF Truthy(p.result.text) THEN p.result.text.s
                     ELSE <<"U", "n", "a", "b", "l", "e", " ", "t", "o", " ", "r", "e", "t", "r", "i", "e", "v", "e", " ", "v", "i", "d", "e", "o", " ", "i", "n", "f", "o", "r", "m", "a", "t", "i", "o", "n">>,
                     env.gen), LAMBDA summary :
             Let([c1 EXCEPT !.generated =
                      Append(@, [model |-> "text_model",
                                 name |-> "summarize_youtube_video",
                                 prompt |-> summary.prompt, image |-> FALSE])],
                 LAMBDA c2 :
                 IF IsNone(p.result.vector)
                 THEN Respond(200, ResponseData(summary.text, <<>>), c2)
                 ELSE Let(store_in_vector_db(
                              cfg.available, cfg.disabled, c2.db, p.result.text.s,
                              p.result.vector,
                              [type |-> <<"y", "o", "u", "t", "u", "b", "e">>, url |-> message,
                               summary |-> Slice(summary.text, 0, SnippetCut)],
                              env.insertOk), LAMBDA d :
                      Respond(200, ResponseData(summary.text, <<>>),
                              [c2 EXCEPT !.db = d.db,
                                         !.stored = IF d.id.tag = "str"
                                                    THEN Append(@, d.id.s)
                                                    ELSE @]))))))

\* lines 100-116: the uploaded file is saved and processed
ChatUpload(message, upload, env, cfg, c) ==
    Let(handle_uploaded_file(upload, Len(c.uploads)), LAMBDA h :
        IF h.error.tag = "str" THEN Respond(400, [error |-> h.error], c)
        ELSE IF h.raised THEN Fail(upload.msg, c)
        ELSE Let(process_file(FileAt(h.file_path.s, guess_type(h.file_path.s), TRUE,
                                     upload.readable, FALSE),
                              cfg.libs, env.yt, c.model, env.vec), LAMBDA p :
             Let([c EXCEPT !.uploads = Append(@, h.file_path.s),
                           !.model = p.model,
                           !.file_info = [tag |-> "dict", d |-> p.result]],
                 LAMBDA c1 :
                 IF Truthy(p.result.error)
                 THEN Respond(400, [error |-> Str(<<"F", "a", "i", "l", "e", "d", " ", "t", "o", " ", "p", "r", "o", "c", "e", "s", "s", " ", "t", "h", "e", " ", "f", "i", "l", "e", ":", " ">>
                                                  \o p.result.error.s)], c1)
                 ELSE ChatSearch(message, c1.file_info, upload, env, cfg, c1))))

\* chat(): the response and the handler's state after the request
chat(request, env, cfg, c) ==
    IF request.message.tag # "str"
    THEN Fail(<<"'", "i", "n", "t", "'", " ", "o", "b", "j", "e", "c", "t", " ", "i", "s", " ", "n", "o", "t", " ", "s", "u", "b", "s", "c", "r", "i", "p", "t", "a", "b", "l", "e">>, c)
    ELSE IF is_url(request.message.s) /\ is_youtube_url(request.message.s)
    THEN ChatYouTube(request.message.s, env, cfg, c)
    ELSE Let(IF is_url(request.message.s)
             THEN [c EXCEPT !.file_info =
                      [tag |-> "dict",
                       d |-> process_file(UrlArg(request.message.s), cfg.libs, env.yt,
                                          c.model, env.vec).result]]
             ELSE c, LAMBDA c1 :
             IF ~IsNone(request.upload) /\ request.upload.filename # <<>>
             THEN ChatUpload(request.message.s, request.upload, env, cfg, c1)
             ELSE ChatSearch(request.message.s, c1.file_info, None, env, cfg, c1))

(***************************************************************************)
(* The variables of the other components, at rest                          *)
(***************************************************************************)
NoCall == [fn |-> "none"]

VecIdle ==
    /\ sentence_model = "None"
    /\ root_sentence_model = "loaded"
    /\ vecOut = NoCall

DbIdle ==
    /\ is_connected = FALSE
    /\ collection = <<>>
    /\ uuid_counter = 0
    /\ dbOut = NoCall

ProcIdle ==
    /\ imports = [fitz |-> TRUE, docx |-> TRUE, sr |-> TRUE, youtube |-> TRUE]
    /\ procOut = NoCall

DlIdle == dl = NoCall

MonIdle == monitor = NoCall

ChatIdle ==
    /\ astra_available = FALSE
    /\ DISABLE_VECTOR_DB = FALSE
    /\ langsmith_connected = FALSE
    /\ langsmith_runs = <<>>
    /\ upload_folder = <<>>
    /\ chatOut = NoCall

(***************************************************************************)
(* Inputs of the text_to_vector specification                              *)
(***************************************************************************)
TextOfLen(n, seed) == [i \in 1..n |-> IF (i + seed) % 2 = 0 THEN "a" ELSE "b"]

TextLens ==
    {0, 1} \cup UNION {{k * max_length - 1, k * max_length, k * max_length + 1} :
                        k \in 1..MaxChunks}

VecTexts == {TextOfLen(n, seed) : n \in TextLens, seed \in {0, 1}}

VecInit ==
    /\ DlIdle
    /\ MonIdle
    /\ ChatIdle
    /\ sentence_model = "None"
    /\ root_sentence_model \in {"None", "loaded"}
    /\ vecOut = NoCall
    /\ DbIdle
    /\ ProcIdle

\* a call of text_to_vector of the app variant
TextToVectorApp ==
    \E text \in VecTexts, loadOk \in BOOLEAN, encOk \in BOOLEAN :
        /\ sentence_model' = get_sentence_model(sentence_model, loadOk)
        /\ vecOut' = [fn |-> "app", text |-> text, loadOk |-> loadOk,
                      encOk |-> encOk, modelBefore |-> sentence_model,
                      result |-> text_to_vector(text, sentence_model, loadOk, encOk)]
        /\ UNCHANGED <<root_sentence_model, dbVars, procVars, dlVars, monVars, chatVars>>

\* a call of text_to_vector of the root variant
TextToVectorRoot ==
    \E text \in VecTexts, encOk \in BOOLEAN :
        /\ vecOut' = [fn |-> "root", text |-> text, loadOk |-> TRUE,
                      encOk |-> encOk, modelBefore |-> root_sentence_model,
                      result |-> root_text_to_vector(text, root_sentence_model, encOk)]
        /\ UNCHANGED <<sentence_model, root_sentence_model, dbVars, procVars, dlVars, monVars, chatVars>>

VecNext == TextToVectorApp \/ TextToVectorRoot

SpecVec == VecInit /\ [][VecNext]_vars

(***************************************************************************)
(* The AstraDB manager on its own (specification SpecStore)                *)
(***************************************************************************)
\* a vector of n components, none of them zero
InputVector(n, kind) == [tag |-> kind, data |-> [i \in 1..n |-> (i % 3) + 1]]

StoreVecLens ==
    {0, 1} \cup {n \in (expected_dim - MaxExtra)..(expected_dim + MaxExtra) : TRUE}

StoreVectors ==
    {InputVector(n, "ndarray") : n \in StoreVecLens}
        \cup {InputVector(1, "list"), InputVector(expected_dim, "list")}

StoreTexts == {<<"d", "o", "c">>}

StoreMetas == {EmptyDict, [type |-> <<"p", "d", "f">>]}

Sdks == {"vector_search", "find_options", "find_sort", "find_all", "raises"}

\* how the four call shapes end on an SDK: the shapes an SDK does not know
\* raise AttributeError (no such method) or TypeError (no such parameter);
\* any call may fail for another reason
Surface(vs, fo, fs, fa) ==
    [vector_search |-> vs, find_options |-> fo, find_sort |-> fs, find_all |-> fa]

Surfaces ==
    {Surface("ok", "ok", "ok", "ok"),
     Surface("AttributeError", "ok", "ok", "ok"),
     Surface("AttributeError", "TypeError", "ok", "ok"),
     Surface("AttributeError", "TypeError", "TypeError", "ok"),
     Surface("AttributeError", "TypeError", "TypeError", "Exception"),
     Surface("AttributeError", "TypeError", "TypeError", "TypeError"),
     Surface("Exception", "ok", "ok", "ok"),
     Surface("TypeError", "ok", "ok", "ok"),
     Surface("AttributeError", "AttributeError", "ok", "ok"),
     Surface("AttributeError", "Exception", "ok", "ok"),
     Surface("AttributeError", "TypeError", "AttributeError", "ok"),
     Surface("AttributeError", "TypeError", "Exception", "ok")}

StoreInit ==
    /\ DlIdle
    /\ MonIdle
    /\ ChatIdle
    /\ VecIdle
    /\ ProcIdle
    /\ is_connected \in BOOLEAN
    /\ collection = <<>>
    /\ uuid_counter = 0
    /\ dbOut = NoCall

\* a call of AstraDBManager.store_vector
StoreVector ==
    \E text \in StoreTexts, vector \in StoreVectors, metadata \in StoreMetas,
       insertOk \in BOOLEAN :
        /\ dbOut = NoCall
        /\ uuid_counter < MaxUuid
        /\ LET r == store_vector(is_connected, collection, uuid_counter,
                                 text, vector, metadata, insertOk)
           IN  /\ collection' = r.coll
               /\ uuid_counter' = r.counter
               /\ dbOut' = [fn |-> "store_vector", vector |-> vector,
                            insertOk |-> insertOk,
                            id |-> r.id, sent |-> r.sent]
        /\ UNCHANGED <<is_connected, vecVars, procVars, dlVars, monVars, chatVars>>

\* a call of AstraDBManager.search_similar against an SDK surface
SearchSimilar ==
    \E vector \in StoreVectors, limit \in 0..MaxLimit, surface \in Surfaces :
        /\ dbOut = NoCall
        /\ \E chain \in {SearchChain(surface)} :
           \E r \in {search_similar(is_connected, collection, vector, limit,
                                    chain.sdk)} :
               dbOut' = [fn |-> "search_similar", vector |-> vector,
                         limit |-> limit, surface |-> surface,
                         sdk |-> chain.sdk,
                         tried |-> IF is_connected THEN chain.tried ELSE <<>>,
                         results |-> r.results, sent |-> r.sent]
        /\ UNCHANGED <<is_connected, collection, uuid_counter, vecVars, procVars, dlVars, monVars, chatVars>>

\* a call of AstraDBManager.delete_document
DeleteDocument ==
    \E n \in 0..MaxUuid, deleteOk \in BOOLEAN :
        /\ dbOut = NoCall
        /\ \E r \in {delete_document(is_connected, collection, Uuid4(n), deleteOk)} :
               /\ collection' = r.coll
               /\ dbOut' = [fn |-> "delete_document", document_id |-> Uuid4(n),
                            deleteOk |-> deleteOk, ok |-> r.ok,
                            called |-> r.called]
        /\ UNCHANGED <<is_connected, uuid_counter, vecVars, procVars, dlVars, monVars, chatVars>>

\* the caller takes the returned value; the manager is ready for the next call
DbReturn ==
    /\ dbOut # NoCall
    /\ dbOut' = NoCall
    /\ UNCHANGED <<is_connected, collection, uuid_counter, vecVars, procVars, dlVars, monVars, chatVars>>

StoreNext == StoreVector \/ SearchSimilar \/ DeleteDocument \/ DbReturn

SpecStore == StoreInit /\ [][StoreNext]_vars

(***************************************************************************)
(* process_file on its own (specification SpecProc)                        *)
(***************************************************************************)
ProcPaths ==
    {<<"u", "p", "l", "o", "a", "d", "s", "/", "a", ".", "p", "d", "f">>, <<"u", "p", "l", "o", "a", "d", "s", "/", "a", ".", "P", "D", "F">>, <<"u", "p", "l", "o", "a", "d", "s", "/", "a", ".", "d", "o", "c", "x">>, <<"u", "p", "l", "o", "a", "d", "s", "/", "a", ".", "m", "p", "3">>,
     <<"u", "p", "l", "o", "a", "d", "s", "/", "a", ".", "m", "p", "4">>, <<"u", "p", "l", "o", "a", "d", "s", "/", "a", ".", "p", "n", "g">>, <<"u", "p", "l", "o", "a", "d", "s", "/", "a", ".", "t", "x", "t">>, <<"u", "p", "l", "o", "a", "d", "s", "/", "a">>}

Mimes ==
    {None, Str(<<"i", "m", "a", "g", "e", "/", "p", "n", "g">>), Str(<<"a", "p", "p", "l", "i", "c", "a", "t", "i", "o", "n", "/", "p", "d", "f">>), Str(<<"a", "p", "p", "l", "i", "c", "a", "t", "i", "o", "n", "/", "m", "s", "w", "o", "r", "d">>),
     Str(<<"a", "u", "d", "i", "o", "/", "m", "p", "e", "g">>), Str(<<"v", "i", "d", "e", "o", "/", "m", "p", "4">>), Str(<<"t", "e", "x", "t", "/", "p", "l", "a", "i", "n">>)}

URL_WATCH == <<"h", "t", "t", "p", "s", ":", "/", "/", "w", "w", "w", ".", "y", "o", "u", "t", "u", "b", "e", ".", "c", "o", "m", "/", "w", "a", "t", "c", "h", "?", "v", "=", "d", "Q", "w", "4", "w", "9", "W", "g", "X", "c", "Q">>

URL_SHORT == <<"h", "t", "t", "p", "s", ":", "/", "/", "y", "o", "u", "t", "u", ".", "b", "e", "/", "d", "Q", "w", "4", "w", "9", "W", "g", "X", "c", "Q">>

URL_OTHER == <<"h", "t", "t", "p", "s", ":", "/", "/", "e", "x", "a", "m", "p", "l", "e", ".", "c", "o", "m", "/", "v", "i", "d", "e", "o">>

\* a video whose metadata, download and transcription all succeed
YtOk ==
    [ctorOk |-> TRUE, titleOk |-> TRUE, authorOk |-> TRUE, lengthOk |-> TRUE,
     viewsOk |-> TRUE, descOk |-> TRUE, title |-> <<"N", "e", "v", "e", "r">>, author |-> <<"R", "i", "c", "k">>,
     length |-> 212, views |-> 7, description |-> <<"T", "h", "e", " ", "o", "f", "f", "i", "c", "i", "a", "l", " ", "v", "i", "d", "e", "o">>,
     msg |-> <<"H", "T", "T", "P", " ", "E", "r", "r", "o", "r", " ", "4", "0", "0">>, sr_available |-> TRUE,
     downloads |-> <<"raise", "ok", "ok">>, recogOk |-> TRUE,
     transcript |-> <<"w", "e", " ", "a", "r", "e", " ", "n", "o", " ", "s", "t", "r", "a", "n", "g", "e", "r", "s">>, raises |-> FALSE]

\* the video service answers, is down, has no audio, cannot be transcribed,
\* lacks some attributes, or has a description longer than the summary shows
YtEnvs ==
    {YtOk,
     [YtOk EXCEPT !.ctorOk = FALSE],
     [YtOk EXCEPT !.downloads = <<"raise", "raise", "raise">>, !.titleOk = FALSE],
     [YtOk EXCEPT !.sr_available = FALSE, !.length = 700],
     [YtOk EXCEPT !.recogOk = FALSE, !.description = <<>>],
     [YtOk EXCEPT !.raises = TRUE],
     [YtOk EXCEPT !.titleOk = FALSE, !.viewsOk = FALSE],
     [YtOk EXCEPT !.downloads = <<"no_stream", "ok", "ok">>,
                  !.description = [i \in 1..(DescCut + 1) |-> "d"]]}

ImportSets ==
    {[fitz |-> TRUE, docx |-> TRUE, sr |-> TRUE, youtube |-> TRUE],
     [fitz |-> FALSE, docx |-> FALSE, sr |-> FALSE, youtube |-> FALSE]}

\* the embedding model loads and encodes, fails to load, or raises in encode
VecEnvs ==
    {[loadOk |-> TRUE, encOk |-> TRUE], [loadOk |-> FALSE, encOk |-> TRUE],
     [loadOk |-> TRUE, encOk |-> FALSE]}

ProcArgs ==
    {FileAt(p, m, TRUE, r, FALSE) : p \in ProcPaths, m \in Mimes, r \in BOOLEAN}
        \cup {FileAt(<<"u", "p", "l", "o", "a", "d", "s", "/", "a", ".", "p", "d", "f">>, Str(<<"a", "p", "p", "l", "i", "c", "a", "t", "i", "o", "n", "/", "p", "d", "f">>), FALSE, FALSE, FALSE),
              FileAt(<<"u", "p", "l", "o", "a", "d", "s", "/", "a", ".", "p", "d", "f">>, Str(<<"a", "p", "p", "l", "i", "c", "a", "t", "i", "o", "n", "/", "p", "d", "f">>), TRUE, TRUE, TRUE)}
        \cup {UrlArg(u) : u \in {URL_WATCH, URL_SHORT, URL_OTHER}}

ProcInit ==
    /\ DlIdle
    /\ MonIdle
    /\ ChatIdle
    /\ VecIdle
    /\ DbIdle
    /\ imports \in ImportSets
    /\ procOut = NoCall

\* process_file returned r: the caller holds the result, the model handle is
\* what get_sentence_model left
ProcessFileReturns(file, yt, r) ==
    /\ procOut' = [fn |-> "process_file", file |-> file, yt |-> yt,
                   result |-> r.result, calls |-> r.calls]
    /\ sentence_model' = r.model

\* a call of process_file
ProcessFile ==
    \E file \in ProcArgs, yt \in YtEnvs, vec \in VecEnvs :
        /\ procOut = NoCall
        /\ ProcessFileReturns(file, yt,
                              process_file(file, imports, yt, sentence_model, vec))
        /\ UNCHANGED <<root_sentence_model, vecOut, imports, dbVars, dlVars, monVars, chatVars>>

\* the caller takes the returned value
ProcReturn ==
    /\ procOut # NoCall
    /\ procOut' = NoCall
    /\ UNCHANGED <<vecVars, imports, dbVars, dlVars, monVars, chatVars>>

ProcNext == ProcessFile \/ ProcReturn

SpecProc == ProcInit /\ [][ProcNext]_vars

(***************************************************************************)
(* download_audio and transcribe_youtube_audio step by step (specification *)
(* SpecDl).  dl is the frame of the running call:                          *)
(*   fn, url, env   the function called, its argument, the video service   *)
(*   pc             "attempt": at the top of the loop body;                *)
(*                  "sleep": in time.sleep; "returned": download_audio     *)
(*                  returned; "done": the call returned result             *)
(*   retries        max_retries of the call                                *)
(*   attempt        the loop variable                                      *)
(*   log            how each download attempt made so far ended            *)
(*   wait_time, waits   the pending and the finished time.sleep calls      *)
(***************************************************************************)
DlUrls == {URL_WATCH, URL_SHORT, URL_WATCH \o <<"&", "t", "=", "4", "2">>}

DlEnvs ==
    {YtOk,
     [YtOk EXCEPT !.ctorOk = FALSE],
     [YtOk EXCEPT !.sr_available = FALSE],
     [YtOk EXCEPT !.recogOk = FALSE]}

\* how one download attempt can end: the file is there, the video has no
\* audio stream, or YouTube(...) / download(...) raises
Outcomes == {"ok", "no_stream", "raise"}

DlFrame(fn, url, env) ==
    [fn |-> fn, url |-> url, env |-> env, pc |-> "attempt",
     retries |-> max_retries, attempt |-> 0, log |-> <<>>,
     wait_time |-> 0, waits |-> <<>>, audio_path |-> None, result |-> None]

DlInit ==
    /\ VecIdle
    /\ DbIdle
    /\ ProcIdle
    /\ ChatIdle
    /\ MonIdle
    /\ dl = NoCall

\* download_audio(url) is called
CallDownloadAudio ==
    \E url \in DlUrls :
        /\ dl = NoCall
        /\ dl' = DlFrame("download_audio", url, YtOk)
        /\ UNCHANGED <<vecVars, dbVars, procVars, chatVars, monVars>>

\* transcribe_youtube_audio(url) is called: it returns at once, or calls
\* download_audio(url)
CallTranscribe ==
    \E url \in DlUrls, env \in DlEnvs :
        /\ dl = NoCall
        /\ \E early \in {TranscribeEarlyReturn(url, env)} :
               dl' = IF early.tag # "None"
                     THEN [DlFrame("transcribe_youtube_audio", url, env)
                               EXCEPT !.pc = "done", !.result = early]
                     ELSE DlFrame("transcribe_youtube_audio", url, env)
        /\ UNCHANGED <<vecVars, dbVars, procVars, chatVars, monVars>>

\* one pass of the loop body, lines 124-166
DownloadAttempt ==
    /\ dl # NoCall
    /\ dl.pc = "attempt"
    /\ dl.attempt < dl.retries
    /\ \E outcome \in Outcomes :
       \E r \in {download_attempt(dl.url, dl.attempt, dl.retries, outcome)} :
           dl' = [dl EXCEPT !.log = Append(@, outcome),
                            !.pc = IF r.ctl = "return" THEN "returned" ELSE "sleep",
                            !.audio_path = r.path,
                            !.wait_time = r.wait]
    /\ UNCHANGED <<vecVars, dbVars, procVars, chatVars, monVars>>

\* time.sleep(wait_time) returns; the for statement takes the next attempt
\* number, or ends and download_audio returns None
Sleep ==
    /\ dl # NoCall
    /\ dl.pc = "sleep"
    /\ dl' = [dl EXCEPT !.waits = Append(@, dl.wait_time),
                        !.wait_time = 0,
                        !.attempt = @ + 1,
                        !.pc = IF dl.attempt + 1 < dl.retries
                               THEN "attempt" ELSE "returned"]
    /\ UNCHANGED <<vecVars, dbVars, procVars, chatVars, monVars>>

\* download_audio has returned: its caller goes on
DownloadReturns ==
    /\ dl # NoCall
    /\ dl.pc = "returned"
    /\ dl' = [dl EXCEPT !.pc = "done",
                        !.result = IF dl.fn = "download_audio" THEN dl.audio_path
                                   ELSE TranscribeAfterDownload(dl.url, dl.env,
                                                                dl.audio_path)]
    /\ UNCHANGED <<vecVars, dbVars, procVars, chatVars, monVars>>

\* the caller takes the returned value
DlReturn ==
    /\ dl # NoCall
    /\ dl.pc = "done"
    /\ dl' = NoCall
    /\ UNCHANGED <<vecVars, dbVars, procVars, chatVars, monVars>>

DlNext ==
    \/ CallDownloadAudio
    \/ CallTranscribe
    \/ DownloadAttempt
    \/ Sleep
    \/ DownloadReturns
    \/ DlReturn

SpecDl == DlInit /\ [][DlNext]_vars

\* a call that was started keeps running: each download attempt ends (with a
\* file, without a stream, or with an exception), time.sleep returns
SpecDlFair ==
    /\ SpecDl
    /\ WF_vars(DownloadAttempt)
    /\ WF_vars(Sleep)
    /\ WF_vars(DownloadReturns)

(***************************************************************************)
(* The chat endpoint (specification Spec): requests arrive one at a time,  *)
(* each handled to its response                                            *)
(***************************************************************************)
QUESTION == <<"W", "h", "a", "t", " ", "i", "s", " ", "2", "+", "2", "?">>

\* an uploaded file: its name, whether file.save succeeds, whether its
\* content can be extracted, whether PIL opens it
Upload(filename, saveOk, readable, opens) ==
    [tag |-> "file", filename |-> filename, saveOk |-> saveOk, readable |-> readable,
     opens |-> opens, msg |-> MSG_BROKEN]

ChatUploads ==
    {Upload(<<"r", "e", "p", "o", "r", "t", ".", "p", "d", "f">>, TRUE, TRUE, FALSE),
     Upload(<<"r", "e", "p", "o", "r", "t", ".", "p", "d", "f">>, TRUE, FALSE, FALSE),
     Upload(<<"r", "e", "p", "o", "r", "t", ".", "p", "d", "f">>, FALSE, TRUE, FALSE),
     Upload(<<"s", "c", "a", "n", ".", "d", "o", "c", "x">>, TRUE, FALSE, FALSE),
     Upload(<<"m", "e", "m", "o", ".", "m", "p", "3">>, TRUE, TRUE, FALSE),
     Upload(<<"c", "l", "i", "p", ".", "m", "p", "4">>, TRUE, TRUE, FALSE),
     Upload(<<"p", "h", "o", "t", "o", ".", "p", "n", "g">>, TRUE, TRUE, TRUE),
     Upload(<<"p", "h", "o", "t", "o", ".", "p", "n", "g">>, TRUE, FALSE, FALSE),
     Upload(<<"n", "o", "t", "e", "s", ".", "t", "x", "t">>, TRUE, TRUE, FALSE),
     Upload(<<>>, TRUE, TRUE, FALSE)}

Request(message, upload) == [message |-> message, upload |-> upload]

ChatRequests ==
    {Request(m, None) :
        m \in {Str(<<>>), Str(<<" ">>), Str(QUESTION), Str(URL_OTHER), Str(URL_WATCH),
               [tag |-> "int"]}}
        \cup {Request(Str(QUESTION), u) : u \in ChatUploads}
        \cup {Request(Str(<<>>), Upload(<<"r", "e", "p", "o", "r", "t", ".", "p", "d", "f">>, TRUE, TRUE, FALSE)),
              Request(Str(URL_OTHER), Upload(<<"r", "e", "p", "o", "r", "t", ".", "p", "d", "f">>, TRUE, FALSE, FALSE))}

\* the generative model answers, answers with nothing, is blocked, or raises
GenText(text) == [kind |-> "text", text |-> text, msg |-> <<>>]

EnvOk ==
    [gen |-> GenText(<<"2", "+", "2", " ", "i", "s", " ", "4", ".">>), vec |-> [loadOk |-> TRUE, encOk |-> TRUE],
     yt |-> YtOk, sdk |-> "vector_search", insertOk |-> TRUE, logOk |-> TRUE]

ChatEnvs ==
    {EnvOk,
     [EnvOk EXCEPT !.gen = GenText(<<>>)],
     [EnvOk EXCEPT !.gen = [kind |-> "blocked", text |-> <<>>,
                            msg |-> <<"T", "h", "e", " ", "r", "e", "s", "p", "o", "n", "s", "e", " ", "w", "a", "s", " ", "b", "l", "o", "c", "k", "e", "d">>],
                   !.sdk = "find_sort"],
     [EnvOk EXCEPT !.gen = [kind |-> "raises", text |-> <<>>,
                            msg |-> <<"4", "2", "9", " ", "q", "u", "o", "t", "a", " ", "e", "x", "c", "e", "e", "d", "e", "d">>],
                   !.logOk = FALSE],
     [EnvOk EXCEPT !.vec = [loadOk |-> FALSE, encOk |-> TRUE], !.sdk = "raises"],
     [EnvOk EXCEPT !.yt = [YtOk EXCEPT !.ctorOk = FALSE], !.insertOk = FALSE],
     [EnvOk EXCEPT !.logOk = FALSE, !.vec = [loadOk |-> TRUE, encOk |-> FALSE]]}

\* the application started: vector_service looked at the manager once, the
\* routes module imported the YouTube helpers
ChatInit ==
    /\ VecIdle
    /\ DlIdle
    /\ MonIdle
    /\ is_connected \in BOOLEAN
    /\ collection = <<>>
    /\ uuid_counter = 0
    /\ dbOut = NoCall
    /\ imports \in {lib \in ImportSets : lib.youtube}
    /\ procOut = NoCall
    /\ astra_available = is_connected
    /\ DISABLE_VECTOR_DB \in BOOLEAN
    /\ langsmith_connected \in BOOLEAN
    /\ langsmith_runs = <<>>
    /\ upload_folder = <<>>
    /\ chatOut = NoCall

\* what the handler finds when a request arrives
Handler ==
    [model |-> sentence_model,
     db |-> [connected |-> is_connected, coll |-> collection,
             counter |-> uuid_counter],
     runs |-> langsmith_runs, uploads |-> upload_folder,
     generated |-> <<>>, searched |-> <<>>, stored |-> <<>>, file_info |-> None]

Config ==
    [available |-> astra_available, disabled |-> DISABLE_VECTOR_DB,
     langsmith |-> langsmith_connected, libs |-> imports]

\* the requests followed: every request while the world outside behaves,
\* the question under every behaviour of the world outside, and a video,
\* a document and a picture while parts of it fail
Case(request, env) == [request |-> request, env |-> env]

ChatCases ==
    {Case(request, EnvOk) : request \in ChatRequests}
        \cup {Case(Request(Str(QUESTION), None), env) : env \in ChatEnvs}
        \cup {Case(Request(Str(URL_WATCH), None), env) :
                  env \in {e \in ChatEnvs : e.gen.kind = "raises" \/ ~e.yt.ctorOk}}
        \cup {Case(Request(Str(QUESTION), Upload(<<"r", "e", "p", "o", "r", "t", ".", "p", "d", "f">>, TRUE, FALSE, FALSE)), env) :
                  env \in {e \in ChatEnvs : e.gen.kind = "blocked" \/ ~e.vec.encOk}}
        \cup {Case(Request(Str(QUESTION), upload), env) :
                  upload \in {u \in ChatUploads : u.saveOk /\ u.readable /\ allowed_file(u.filename)},
                  env \in {e \in ChatEnvs : e.gen.kind = "text" /\ e.gen.text # <<>>}}

\* POST /chat, from the request to the response
Chat ==
    \E case \in ChatCases :
        /\ chatOut = NoCall
        /\ uuid_counter < MaxUuid
        /\ Len(langsmith_runs) < MaxRuns
        /\ Len(upload_folder) < MaxUploads
        /\ \E r \in {chat(case.request, case.env, Config, Handler)} :
               /\ chatOut' = [fn |-> "chat", request |-> case.request,
                              env |-> case.env,
                              status |-> r.status, body |-> r.body,
                              generated |-> r.c.generated,
                              searched |-> r.c.searched, stored |-> r.c.stored,
                              file_info |-> r.c.file_info]
               /\ sentence_model' = r.c.model
               /\ collection' = r.c.db.coll
               /\ uuid_counter' = r.c.db.counter
               /\ langsmith_runs' = r.c.runs
               /\ upload_folder' = r.c.uploads
        /\ UNCHANGED <<root_sentence_model, vecOut, is_connected, dbOut, imports,
                       procOut, dlVars, monVars, astra_available, DISABLE_VECTOR_DB,
                       langsmith_connected>>

\* the client has the response
ChatReturn ==
    /\ chatOut # NoCall
    /\ chatOut' = NoCall
    /\ UNCHANGED <<vecVars, dbVars, procVars, dlVars, monVars, astra_available,
                   DISABLE_VECTOR_DB, langsmith_connected, langsmith_runs,
                   upload_folder>>

Next == Chat \/ ChatReturn

Spec == ChatInit /\ [][Next]_vars

(***************************************************************************)
(* The prompt assembly of chat() on its own (specification SpecPrompt):    *)
(* lines 129-191 applied to a message and the records retrieved            *)
(***************************************************************************)
\* a retrieved record: its keys and what they hold
Doc(id, fields) == [_id |-> id] @@ fields

\* records of every kind: Q&A pairs by type and by their fields, documents,
\* a document longer than the snippet, and records without text or _id
RetrievedDocs ==
    {Doc(<<"u", "u", "i", "d", "-", "0">>, [text |-> <<"Q", "u", "e", "s", "t", "i", "o", "n", ":", " ", "q", "1", "\n", "\n", "A", "n", "s", "w", "e", "r", ":", " ", "a", "1">>, type |-> <<"q", "a", "_", "p", "a", "i", "r">>,
                      question |-> <<"q", "1">>, answer |-> <<"a", "1">>]),
     Doc(<<"u", "u", "i", "d", "-", "1">>, [text |-> <<"Q", "u", "e", "s", "t", "i", "o", "n", ":", " ", "q", "2", "\n", "\n", "A", "n", "s", "w", "e", "r", ":", " ", "a", "2">>,
                      question |-> <<"q", "2">>, answer |-> <<"a", "2">>]),
     Doc(<<"u", "u", "i", "d", "-", "2">>, [text |-> <<"R", "e", "v", "e", "n", "u", "e", " ", "g", "r", "e", "w", " ", "4", "%", ".">>, type |-> <<"p", "d", "f">>]),
     Doc(<<"u", "u", "i", "d", "-", "3">>, [text |-> [i \in 1..(SnippetCut + 1) |-> "t"],
                      type |-> <<"y", "o", "u", "t", "u", "b", "e">>, url |-> URL_WATCH]),
     Doc(<<"u", "u", "i", "d", "-", "4">>, [text |-> <<"o", "n", "l", "y", " ", "a", " ", "q", "u", "e", "s", "t", "i", "o", "n">>, question |-> <<"q", "5">>]),
     Doc(<<"u", "u", "i", "d", "-", "5">>, [type |-> <<"p", "d", "f">>, answer |-> <<"n", "o", " ", "t", "e", "x", "t", " ", "h", "e", "r", "e">>]),
     [text |-> <<"n", "o", " ", "i", "d", " ", "h", "e", "r", "e">>, type |-> <<"q", "a", "_", "p", "a", "i", "r">>, question |-> <<"q", "7">>,
      answer |-> <<"a", "7">>]}

DocLists ==
    UNION {[1..n -> RetrievedDocs] : n \in 0..MaxDocs}

PromptMessages == {<<>>, QUESTION}

PromptInit ==
    /\ VecIdle
    /\ DbIdle
    /\ ProcIdle
    /\ DlIdle
    /\ MonIdle
    /\ ChatIdle

\* the records come back from find_similar_content and the message is
\* enhanced
EnhancePrompt ==
    \E message \in PromptMessages, similar_docs \in DocLists :
        /\ chatOut = NoCall
        /\ \E e \in {Enhance(message, similar_docs)} :
               chatOut' = [fn |-> "enhance", message |-> message,
                           similar_docs |-> similar_docs,
                           similar_content |-> e.similar_content,
                           qa_pairs |-> e.qa_pairs, other_docs |-> e.other_docs,
                           prompt |-> e.message]
        /\ UNCHANGED <<vecVars, dbVars, procVars, dlVars, monVars, astra_available,
                       DISABLE_VECTOR_DB, langsmith_connected, langsmith_runs,
                       upload_folder>>

\* the handler goes on to the generation
PromptReturn ==
    /\ chatOut # NoCall
    /\ chatOut.fn = "enhance"
    /\ chatOut' = NoCall
    /\ UNCHANGED <<vecVars, dbVars, procVars, dlVars, monVars, astra_available,
                   DISABLE_VECTOR_DB, langsmith_connected, langsmith_runs,
                   upload_folder>>

PromptNext == EnhancePrompt \/ PromptReturn

SpecPrompt == PromptInit /\ [][PromptNext]_vars

(***************************************************************************)
(* The wrapper of LangSmithMonitor.trace on its own (specification         *)
(* SpecTrace): one traced function is called through the wrapper           *)
(***************************************************************************)
\* the names the three traced functions of chat() are given
TraceNames == {<<"v", "i", "s", "i", "o", "n", "_", "m", "o", "d", "e", "l", "_", "g", "e", "n", "e", "r", "a", "t", "e">>, <<"t", "e", "x", "t", "_", "m", "o", "d", "e", "l", "_", "w", "i", "t", "h", "_", "f", "i", "l", "e">>, <<"t", "e", "x", "t", "_", "m", "o", "d", "e", "l", "_", "o", "n", "l", "y">>}

\* how the traced function ends when it is called directly
TraceGens ==
    {GenText(<<"2", "+", "2", " ", "i", "s", " ", "4", ".">>),
     GenText(<<>>),
     [kind |-> "blocked", text |-> <<>>, msg |-> <<"T", "h", "e", " ", "r", "e", "s", "p", "o", "n", "s", "e", " ", "w", "a", "s", " ", "b", "l", "o", "c", "k", "e", "d">>],
     [kind |-> "raises", text |-> <<>>, msg |-> <<"4", "2", "9", " ", "q", "u", "o", "t", "a", " ", "e", "x", "c", "e", "e", "d", "e", "d">>]}

TraceInit ==
    /\ VecIdle
    /\ DbIdle
    /\ ProcIdle
    /\ DlIdle
    /\ MonIdle
    /\ astra_available = FALSE
    /\ DISABLE_VECTOR_DB = FALSE
    /\ langsmith_connected \in BOOLEAN
    /\ langsmith_runs = <<>>
    /\ upload_folder = <<>>
    /\ chatOut = NoCall

\* the wrapper is called: direct is how the function itself ends, observed
\* is what the caller of the wrapper gets
TraceCall ==
    \E name \in TraceNames, gen \in TraceGens, logOk \in BOOLEAN :
        /\ chatOut = NoCall
        /\ Len(langsmith_runs) < MaxTraced
        /\ \E t \in {trace(langsmith_connected, langsmith_runs, name, gen, logOk)} :
               /\ langsmith_runs' = t.runs
               /\ chatOut' = [fn |-> "trace", name |-> name, direct |-> gen,
                              logOk |-> logOk, observed |-> t.gen,
                              invoked |-> t.invoked,
                              submitted |-> Len(t.runs) - Len(langsmith_runs)]
        /\ UNCHANGED <<vecVars, dbVars, procVars, dlVars, monVars, astra_available,
                       DISABLE_VECTOR_DB, langsmith_connected, upload_folder>>

TraceReturn ==
    /\ chatOut # NoCall
    /\ chatOut.fn = "trace"
    /\ chatOut' = NoCall
    /\ UNCHANGED <<vecVars, dbVars, procVars, dlVars, monVars, astra_available,
                   DISABLE_VECTOR_DB, langsmith_connected, langsmith_runs,
                   upload_folder>>

TraceNext == TraceCall \/ TraceReturn

SpecTrace == TraceInit /\ [][TraceNext]_vars

(***************************************************************************)
(* app/core/app_factory.py: create_app and the /api/ask route              *)
(* (specification SpecApp)                                                 *)
(***************************************************************************)
\* stands for the key literal of line 65
FALLBACK_KEY == <<"<", "t", "h", "e", " ", "k", "e", "y", " ", "l", "i", "t", "e", "r", "a", "l", " ", "o", "f", " ", "a", "p", "p", "_", "f", "a", "c", "t", "o", "r", "y", ".", "p", "y", ">">>

\* lines 45-53: the first of the two secret files that opens gives the key,
\* stripped, and ends the loop; secrets[i] is None when the i-th file cannot
\* be opened
read_secret_files(api_key, secrets) ==
    IF secrets[1].tag = "str" THEN Str(Strip(secrets[1].s))
    ELSE IF secrets[2].tag = "str" THEN Str(Strip(secrets[2].s))
    ELSE api_key

\* line 26
is_render(env) == Truthy(env.RENDER) \/ Truthy(env.RENDER_SERVICE_ID)

\* lines 40-53: the key as it is before the test of line 55
FoundKey(env) ==
    IF Truthy(env.GOOGLE_API_KEY) THEN env.GOOGLE_API_KEY
    ELSE read_secret_files(env.GOOGLE_API_KEY, env.secrets)

\* the settings of lines 93-97
LIGHTWEIGHT_CONFIG == {"DISABLE_VECTOR_DB", "DISABLE_SENTENCE_TRANSFORMER", "DISABLE_LANGSMITH", "LIGHTWEIGHT_MODE", "LAZY_LOAD_MODELS"}

\* a slip: the blueprint is registered on the hosting platform as well
Blueprints_Always(env) ==
    IF env.blueprintOk THEN {"main"} ELSE {}

\* lines 243-250: the blueprint of routes.py is registered off the hosting
\* platform, unless importing or registering it raises
Blueprints(env) ==
    IF ~is_render(env) /\ env.blueprintOk THEN {"main"} ELSE {}

\* create_app(): raises ValueError, or returns the app with the key given to
\* genai.configure, the settings that are True, its own routes and the
\* blueprints registered
create_app(env) ==
    IF ~Truthy(FoundKey(env)) /\ ~is_render(env)
    THEN [raised |-> TRUE,
          error |-> <<"G", "O", "O", "G", "L", "E", "_", "A", "P", "I", "_", "K", "E", "Y", " ", "e", "n", "v", "i", "r", "o", "n", "m", "e", "n", "t", " ", "v", "a", "r", "i", "a", "b", "l", "e", " ", "n", "o", "t", " ", "s", "e", "t">>,
          app |-> None]
    ELSE [raised |-> FALSE,
          error |-> <<>>,
          app |-> [tag |-> "app",
                   api_key |-> IF Truthy(FoundKey(env)) THEN FoundKey(env).s
                               ELSE FALLBACK_KEY,
                   config |-> IF is_render(env) THEN LIGHTWEIGHT_CONFIG ELSE {},
                   routes |-> {"/health", "/", "/api/ask", "/chat"},
                   blueprints |-> Blueprints(env)]]

\* not question
Falsy(x) ==
    \/ x.tag = "None"
    \/ x.tag = "str" /\ x.s = <<>>
    \/ x.tag = "int" /\ x.n = 0

\* request.get_json() followed by data.get: the message of the exception a
\* body raises that is not JSON or not a JSON object
BodyError(body) ==
    CASE body.tag = "notjson" -> <<"4", "1", "5", " ", "U", "n", "s", "u", "p", "p", "o", "r", "t", "e", "d", " ", "M", "e", "d", "i", "a", " ", "T", "y", "p", "e">>
      [] body.tag = "None" -> <<"'", "N", "o", "n", "e", "T", "y", "p", "e", "'", " ", "o", "b", "j", "e", "c", "t", " ", "h", "a", "s", " ", "n", "o", " ", "a", "t", "t", "r", "i", "b", "u", "t", "e", " ", "'", "g", "e", "t", "'">>
      [] body.tag = "list" -> <<"'", "l", "i", "s", "t", "'", " ", "o", "b", "j", "e", "c", "t", " ", "h", "a", "s", " ", "n", "o", " ", "a", "t", "t", "r", "i", "b", "u", "t", "e", " ", "'", "g", "e", "t", "'">>
      [] OTHER -> <<>>

\* a slip: the question is not tested before the generator is called
AskCallsGenerator_Always(body) == body.tag = "dict"

\* lines 127-131: the generator is called for a JSON object whose question
\* is not falsy
AskCallsGenerator(body) ==
    body.tag = "dict" /\ ~Falsy(Get(body.d, "question", Str(<<>>)))

\* api_ask(): the status, the JSON body and the prompts given to the
\* generator
api_ask(body, gen) ==
    IF body.tag # "dict"
    THEN [status |-> 500, body |-> [error |-> Str(BodyError(body))], generated |-> <<>>]
    ELSE IF ~AskCallsGenerator(body)
    THEN [status |-> 400, body |-> [error |-> Str(<<"N", "o", " ", "q", "u", "e", "s", "t", "i", "o", "n", " ", "p", "r", "o", "v", "i", "d", "e", "d">>)],
          generated |-> <<>>]
    ELSE [status |-> IF gen.kind = "text" THEN 200 ELSE 500,
          body |-> IF gen.kind = "text"
                   THEN [answer |-> Str(gen.text), status |-> Str(<<"s", "u", "c", "c", "e", "s", "s">>)]
                   ELSE [error |-> Str(gen.msg)],
          generated |-> <<Get(body.d, "question", Str(<<>>))>>]

\* what the environment of the process can hold
EnvValues == {None, Str(<<>>), Str(<<"t", "r", "u", "e">>)}

KeyValues == {None, Str(<<>>), Str(<<"k", "e", "y", "-", "f", "r", "o", "m", "-", "e", "n", "v">>)}

SecretFiles == {None, Str(<<>>), Str(<<" ", "k", "e", "y", "-", "f", "r", "o", "m", "-", "f", "i", "l", "e", "\n">>)}

AppEnvs ==
    [GOOGLE_API_KEY : KeyValues, secrets : [1..2 -> SecretFiles],
     RENDER : EnvValues, RENDER_SERVICE_ID : EnvValues, blueprintOk : BOOLEAN]

\* the bodies posted to /api/ask
AskBodies ==
    {[tag |-> "notjson"], [tag |-> "None"], [tag |-> "list"],
     [tag |-> "dict", d |-> EmptyDict]}
        \cup {[tag |-> "dict", d |-> [question |-> q]] :
                 q \in {Str(<<>>), Str(<<" ">>), Str(QUESTION), None,
                        [tag |-> "int", n |-> 0], [tag |-> "int", n |-> 7]}}

AppInit ==
    /\ VecIdle
    /\ DbIdle
    /\ ProcIdle
    /\ DlIdle
    /\ MonIdle
    /\ ChatIdle

\* the process starts: create_app() is called once
CreateApp ==
    \E env \in AppEnvs :
        /\ chatOut = NoCall
        /\ \E r \in {create_app(env)} :
               /\ chatOut' = [fn |-> "create_app", env |-> env, raised |-> r.raised,
                              error |-> r.error, app |-> r.app]
               /\ DISABLE_VECTOR_DB' =
                      IF r.raised THEN DISABLE_VECTOR_DB
                      ELSE "DISABLE_VECTOR_DB" \in r.app.config
        /\ UNCHANGED <<vecVars, dbVars, procVars, dlVars, monVars, astra_available,
                       langsmith_connected, langsmith_runs, upload_folder>>

\* the app that started answers a POST /api/ask
ApiAsk ==
    \E body \in AskBodies, gen \in TraceGens :
        /\ chatOut # NoCall
        /\ chatOut.fn \in {"create_app", "api_ask"}
        /\ ~IsNone(chatOut.app)
        /\ \E r \in {api_ask(body, gen)} :
               chatOut' = [fn |-> "api_ask", app |-> chatOut.app, request |-> body,
                           gen |-> gen, status |-> r.status, body |-> r.body,
                           generated |-> r.generated]
        /\ UNCHANGED <<vecVars, dbVars, procVars, dlVars, monVars, astra_available,
                       DISABLE_VECTOR_DB, langsmith_connected, langsmith_runs,
                       upload_folder>>

AppNext == CreateApp \/ ApiAsk

SpecApp == AppInit /\ [][AppNext]_vars

(***************************************************************************)
(* is_youtube_url on its own (specification SpecUrl): URLs made of an      *)
(* optional scheme, an optional www., a host and a path                    *)
(***************************************************************************)
VIDEO_ID == <<"d", "Q", "w", "4", "w", "9", "W", "g", "X", "c", "Q">>

UrlSchemes == {<<>>, <<"h", "t", "t", "p", ":", "/", "/">>, <<"h", "t", "t", "p", "s", ":", "/", "/">>}

UrlWww == {<<>>, <<"w", "w", "w", ".">>}

YouTubeHosts == {<<"y", "o", "u", "t", "u", "b", "e", ".", "c", "o", "m">>, <<"y", "o", "u", "t", "u", ".", "b", "e">>, <<"y", "o", "u", "t", "u", "b", "e", "-", "n", "o", "c", "o", "o", "k", "i", "e", ".", "c", "o", "m">>}

UrlHosts == YouTubeHosts \cup {<<"e", "x", "a", "m", "p", "l", "e", ".", "c", "o", "m">>, <<"v", "i", "m", "e", "o", ".", "c", "o", "m">>}

\* the paths of a watch, a short and an embed URL with a video id
VideoPaths ==
    {<<"/", "w", "a", "t", "c", "h", "?", "v", "=">> \o VIDEO_ID, <<"/">> \o VIDEO_ID, <<"/", "e", "m", "b", "e", "d", "/">> \o VIDEO_ID,
     <<"/", "w", "a", "t", "c", "h", "?", "v", "=">> \o VIDEO_ID \o <<"&", "t", "=", "4", "2">>}

UrlPaths ==
    VideoPaths \cup {<<"/", "v", "i", "d", "e", "o">>, <<"/">>, <<"/", "w", "a", "t", "c", "h", "?", "v", "=", "s", "h", "o", "r", "t">>, <<"/", "f", "e", "e", "d", "/", "s", "u", "b", "s", "c", "r", "i", "p", "t", "i", "o", "n", "s">>}

UrlInit ==
    /\ VecIdle
    /\ DbIdle
    /\ ProcIdle
    /\ DlIdle
    /\ MonIdle
    /\ ChatIdle

\* is_youtube_url is applied to a URL
CheckUrl ==
    \E scheme \in UrlSchemes, www \in UrlWww, host \in UrlHosts, path \in UrlPaths :
        /\ procOut' = [fn |-> "is_youtube_url", url |-> scheme \o www \o host \o path,
                       host |-> host, path |-> path,
                       result |-> is_youtube_url(scheme \o www \o host \o path)]
        /\ UNCHANGED <<vecVars, dbVars, imports, dlVars, monVars, chatVars>>

SpecUrl == UrlInit /\ [][CheckUrl]_vars

(***************************************************************************)
(* get_sentence_model called from several request threads (specification   *)
(* SpecSingleton).  A thread can be interrupted between the test of line   *)
(* 59, the construction and assignment of line 63 and the return of line   *)
(* 67; the module has no lock.                                             *)
(***************************************************************************)
Threads == 1..MaxThreads

\* the n-th SentenceTransformer object constructed in the process
Instance(n) ==
    CASE n = 1 -> "loaded"
      [] n = 2 -> "loaded, second object"
      [] OTHER -> "loaded, later object"

\* vecOut holds where each thread is in get_sentence_model, how many models
\* were constructed, the values the calls returned, and whether a call ever
\* started while another was running
SingletonInit ==
    /\ sentence_model = "None"
    /\ root_sentence_model = "loaded"
    /\ vecOut = [fn |-> "get_sentence_model",
                 pc |-> [t \in Threads |-> "idle"],
                 constructed |-> 0,
                 returned |-> {},
                 overlapped |-> FALSE]
    /\ DbIdle
    /\ ProcIdle
    /\ DlIdle
    /\ MonIdle
    /\ ChatIdle

\* a request thread calls get_sentence_model()
GsmCall(t) ==
    /\ vecOut.pc[t] \in {"idle", "done"}
    /\ vecOut' = [vecOut EXCEPT !.pc[t] = "test",
                                !.overlapped =
                                    @ \/ \E u \in Threads \ {t} :
                                             vecOut.pc[u] \notin {"idle", "done"}]
    /\ UNCHANGED <<sentence_model, root_sentence_model, dbVars, procVars, dlVars, monVars,
                   chatVars>>

\* line 59: if sentence_model is None
GsmTest(t) ==
    /\ vecOut.pc[t] = "test"
    /\ vecOut' = [vecOut EXCEPT !.pc[t] = IF sentence_model = "None" THEN "load"
                                          ELSE "return"]
    /\ UNCHANGED <<sentence_model, root_sentence_model, dbVars, procVars, dlVars, monVars,
                   chatVars>>

\* lines 60-67: the model is constructed and assigned to the global, or the
\* constructor raises and the call returns None
GsmLoad(t) ==
    /\ vecOut.pc[t] = "load"
    /\ \E loadOk \in BOOLEAN :
           IF loadOk
           THEN /\ sentence_model' = Instance(vecOut.constructed + 1)
                /\ vecOut' = [vecOut EXCEPT !.pc[t] = "return",
                                            !.constructed = @ + 1]
           ELSE /\ sentence_model' = sentence_model
                /\ vecOut' = [vecOut EXCEPT !.pc[t] = "done",
                                            !.returned = @ \cup {"None"}]
    /\ UNCHANGED <<root_sentence_model, dbVars, procVars, dlVars, monVars, chatVars>>

\* line 68: return sentence_model
GsmReturn(t) ==
    /\ vecOut.pc[t] = "return"
    /\ vecOut' = [vecOut EXCEPT !.pc[t] = "done",
                                !.returned = @ \cup {sentence_model}]
    /\ UNCHANGED <<sentence_model, root_sentence_model, dbVars, procVars, dlVars, monVars,
                   chatVars>>

SingletonNext ==
    \E t \in Threads : GsmCall(t) \/ GsmTest(t) \/ GsmLoad(t) \/ GsmReturn(t)

SpecSingleton == SingletonInit /\ [][SingletonNext]_vars

(***************************************************************************)
(* src/llm_monitor/components/monitor.py: LLMMonitor (specification        *)
(* SpecMonitor).  monitor holds the object: its settings, metrics_history, *)
(* the content of the metrics file, and the result of the last call.       *)
(***************************************************************************)
\* _load_metrics_history(): file is None when the metrics file does not
\* exist, and is not a list when json.load raises
_load_metrics_history(file) ==
    IF IsNone(file) THEN <<>>
    ELSE IF file.tag = "list" THEN file.data
    ELSE <<>>

\* _save_metrics_history(): the file holds the history, or is left as it was
\* when writing raises
_save_metrics_history(file, metrics_history, saveOk) ==
    IF saveOk THEN [tag |-> "list", data |-> metrics_history] ELSE file

\* lines 126-135: the metrics of a call that returned result
CallMetrics(m, call) ==
    (IF m.track_latency THEN [latency |-> call.latency] ELSE EmptyDict)
        @@ (IF m.track_tokens /\ ~IsNone(call.usage)
            THEN [input_tokens |-> call.usage.prompt_tokens,
                  output_tokens |-> call.usage.completion_tokens,
                  total_tokens |-> call.usage.total_tokens]
            ELSE EmptyDict)

\* a slip: a call that raises is counted as well
wrapper_CountsRaised(m, call, saveOk) ==
    Let(Append(m.metrics_history,
               [model |-> m.model_name, metrics |-> CallMetrics(m, call)]),
        LAMBDA history :
        [raised |-> call.kind # "returns",
         invoked |-> 1,
         metrics_history |-> history,
         metrics_file |-> _save_metrics_history(m.metrics_file, history, saveOk)])

\* the wrapper made by monitor(func), called once: func returns, func raises,
\* or func returns and logging its output raises (with track_outputs)
wrapper(m, call, saveOk) ==
    IF call.kind = "raises" \/ (call.kind = "output_raises" /\ m.track_outputs)
    THEN [raised |-> TRUE, invoked |-> 1, metrics_history |-> m.metrics_history,
          metrics_file |-> m.metrics_file]
    ELSE Let(Append(m.metrics_history,
                    [model |-> m.model_name, metrics |-> CallMetrics(m, call)]),
             LAMBDA history :
             [raised |-> FALSE,
              invoked |-> 1,
              metrics_history |-> history,
              metrics_file |-> _save_metrics_history(m.metrics_file, history,
                                                     saveOk)])

\* [entry["metrics"].get(key, 0) for entry in history if key in entry["metrics"]]
MetricValues(history, key) ==
    Let(SelectSeq(history, LAMBDA entry : HasKey(entry.metrics, key)), LAMBDA with :
        [k \in 1..Len(with) |-> with[k].metrics[key]])

RECURSIVE SumSeq(_)
SumSeq(values) ==
    IF values = <<>> THEN 0 ELSE values[1] + SumSeq(Tail(values))

\* sum(values) / len(values), kept as a fraction
Average(values) == [sum |-> SumSeq(values), len |-> Len(values)]

\* get_metrics_summary()
get_metrics_summary(m) ==
    IF m.metrics_history = <<>>
    THEN [message |-> <<"N", "o", " ", "m", "e", "t", "r", "i", "c", "s", " ", "c", "o", "l", "l", "e", "c", "t", "e", "d", " ", "y", "e", "t">>]
    ELSE [model |-> m.model_name,
          total_requests |-> Len(m.metrics_history),
          metrics |->
              Let(MetricValues(m.metrics_history, "latency"), LAMBDA latencies :
              Let(MetricValues(m.metrics_history, "input_tokens"), LAMBDA input_tokens :
              Let(MetricValues(m.metrics_history, "output_tokens"), LAMBDA output_tokens :
              Let(MetricValues(m.metrics_history, "total_tokens"), LAMBDA total_tokens :
                  (IF latencies # <<>>
                   THEN [avg_latency |-> Average(latencies),
                         min_latency |-> Min(Range(latencies)),
                         max_latency |-> CHOOSE x \in Range(latencies) :
                                             \A y \in Range(latencies) : x >= y]
                   ELSE EmptyDict)
                  @@ (IF input_tokens # <<>>
                      THEN [total_input_tokens |-> SumSeq(input_tokens),
                            avg_input_tokens |-> Average(input_tokens)]
                      ELSE EmptyDict)
                  @@ (IF output_tokens # <<>>
                      THEN [total_output_tokens |-> SumSeq(output_tokens),
                            avg_output_tokens |-> Average(output_tokens)]
                      ELSE EmptyDict)
                  @@ (IF total_tokens # <<>>
                      THEN [total_tokens_used |-> SumSeq(total_tokens),
                            avg_tokens_per_request |-> Average(total_tokens)]
                      ELSE EmptyDict)))))]

MODEL_NAME == <<"g", "e", "m", "i", "n", "i", "-", "p", "r", "o">>

\* the entries an earlier run of the monitor left in the metrics file
SavedEntries ==
    {[model |-> MODEL_NAME, metrics |-> [latency |-> 2]],
     [model |-> MODEL_NAME, metrics |-> EmptyDict]}

\* the metrics file: missing, not JSON, or the list an earlier run saved
MetricsFiles ==
    {None, [tag |-> "corrupt"]}
        \cup {[tag |-> "list", data |-> d] :
                 d \in UNION {[1..n -> SavedEntries] : n \in 0..MaxLoaded}}

\* how a monitored function ends, after how long, and the usage its result
\* carries
MonitoredCalls ==
    [kind : {"returns", "raises", "output_raises"}, latency : {1},
     usage : {None, [tag |-> "usage", prompt_tokens |-> 3, completion_tokens |-> 5,
                     total_tokens |-> 8]}]

MonitorInit ==
    /\ VecIdle
    /\ DbIdle
    /\ ProcIdle
    /\ DlIdle
    /\ ChatIdle
    /\ monitor = NoCall

\* LLMMonitor(model_name, ...) is constructed
NewMonitor ==
    \E file \in MetricsFiles, track_latency \in BOOLEAN, track_tokens \in BOOLEAN, track_outputs \in BOOLEAN :
        /\ monitor = NoCall
        /\ monitor' = [fn |-> "LLMMonitor", model_name |-> MODEL_NAME,
                       track_latency |-> track_latency,
                       track_tokens |-> track_tokens,
                       track_outputs |-> track_outputs,
                       metrics_file |-> file,
                       metrics_history |-> _load_metrics_history(file),
                       loaded |-> Len(_load_metrics_history(file)),
                       returned |-> 0, raised |-> 0,
                       out |-> NoCall]
        /\ UNCHANGED <<vecVars, dbVars, procVars, dlVars, chatVars>>

\* a function wrapped by monitor() is called
MonitoredCall ==
    \E call \in MonitoredCalls, saveOk \in BOOLEAN :
        /\ monitor # NoCall
        /\ monitor.returned + monitor.raised < MaxCalls
        /\ \E r \in {wrapper(monitor, call, saveOk)} :
               monitor' = [monitor EXCEPT
                              !.metrics_history = r.metrics_history,
                              !.metrics_file = r.metrics_file,
                              !.returned = IF r.raised THEN @ ELSE @ + 1,
                              !.raised = IF r.raised THEN @ + 1 ELSE @,
                              !.out = [fn |-> "monitor", call |-> call,
                                       raised |-> r.raised,
                                       invoked |-> r.invoked,
                                       appended |-> Len(r.metrics_history)
                                                       - Len(monitor.metrics_history)]]
        /\ UNCHANGED <<vecVars, dbVars, procVars, dlVars, chatVars>>

\* get_metrics_summary() is called
GetMetricsSummary ==
    /\ monitor # NoCall
    /\ monitor' = [monitor EXCEPT !.out = [fn |-> "get_metrics_summary",
                                           summary |-> get_metrics_summary(monitor)]]
    /\ UNCHANGED <<vecVars, dbVars, procVars, dlVars, chatVars>>

MonitorNext == NewMonitor \/ MonitoredCall \/ GetMetricsSummary

SpecMonitor == MonitorInit /\ [][MonitorNext]_vars

(***************************************************************************)
(* Claims about text_to_vector (specification SpecVec)                     *)
(***************************************************************************)
IsVectorOfDim(x, dim) == x.tag = "ndarray" /\ Len(x.data) = dim

IsZeroVector(x, dim) ==
    IsVectorOfDim(x, dim) /\ \A i \in 1..dim : x.data[i] = 0

\* the call found a usable model and encode did not raise
VecCallHealthy == vecOut.encOk /\ (vecOut.modelBefore = "loaded" \/ vecOut.loadOk)

\* the app variant alone: a vector of 1024 components for every text, zero for ""
C3_App ==
    (vecOut.fn = "app" /\ VecCallHealthy) =>
        /\ IsVectorOfDim(vecOut.result, AppModelDim)
        /\ Len(vecOut.text) = 0 => IsZeroVector(vecOut.result, AppModelDim)

\* the root variant alone: a vector of 384 components for every text, zero for ""
C3_Root ==
    (vecOut.fn = "root" /\ VecCallHealthy) =>
        /\ IsVectorOfDim(vecOut.result, RootModelDim)
        /\ Len(vecOut.text) = 0 => IsZeroVector(vecOut.result, RootModelDim)

\* C3: for any text of any length, the empty string included, text_to_vector of
\* both variants returns a vector of the configured fixed dimension, and the
\* all-zero vector for the empty string.
C3_FixedDimensionBothVariants == C3_App /\ C3_Root

\* the call could not load the model, or encode raised
VecCallFailed ==
    \/ ~vecOut.encOk
    \/ (vecOut.modelBefore = "None" /\ (vecOut.fn = "root" \/ ~vecOut.loadOk))

\* the app variant alone: a failed call yields zeros(1024)
C4_App ==
    (vecOut.fn = "app" /\ VecCallFailed) => IsZeroVector(vecOut.result, ZeroDim)

\* the root variant alone: a failed call yields a zero vector, never None
C4_Root ==
    (vecOut.fn = "root" /\ VecCallFailed) =>
        /\ ~IsNone(vecOut.result)
        /\ IsZeroVector(vecOut.result, RootModelDim)

\* C4: when the embedding model cannot be loaded or encode raises,
\* text_to_vector of both variants returns an all-zero vector of the expected
\* dimension and never None.
C4_ZeroVectorOnFailureBothVariants == C4_App /\ C4_Root

(***************************************************************************)
(* Claims about the AstraDB manager (specification SpecStore)              *)
(***************************************************************************)
\* the components a stored vector must have for the input it was made from
IsPaddedOrTruncated(stored, input) ==
    /\ Len(stored) = expected_dim
    /\ \A i \in 1..expected_dim :
           stored[i] = IF i <= Len(input) THEN input[i] ELSE 0

StoreInserted == dbOut.fn = "store_vector" /\ dbOut.id.tag = "str"

\* C5: every vector store_vector inserts has exactly 1024 components, whatever
\* the length of the input: a shorter input is stored followed by zeros, a
\* longer one cut to its first 1024 components, one of 1024 unchanged.
C5_StoredVectorHasCollectionDimension ==
    /\ \A k \in 1..Len(collection) : Len(collection[k].vector) = expected_dim
    /\ StoreInserted =>
           LET row == collection[Len(collection)]
           IN  /\ row._id = dbOut.id.s
               /\ IsPaddedOrTruncated(row.vector, dbOut.vector.data)
               /\ Len(dbOut.vector.data) = expected_dim
                      => row.vector = dbOut.vector.data

\* a longer input was truncated and inserted after a padded one
C5_Witness ==
    /\ StoreInserted
    /\ Len(dbOut.vector.data) > expected_dim
    /\ Len(collection) = 2
    /\ collection[1].vector[expected_dim] = 0
    /\ collection[2].vector[expected_dim] # 0

\* C6: the pad/truncate correction of store_vector and search_similar is
\* idempotent: a vector that already has the configured dimension comes back
\* unchanged, so correcting the corrected vector again changes nothing.
C6_DimensionCorrectionIdempotent ==
    (dbOut.fn \in {"store_vector", "search_similar"} /\ dbOut.sent.tag = "list") =>
        LET once == dbOut.sent.data
        IN  /\ StoreCorrectDim(once) = once
            /\ SearchCorrectDim(once) = once
            /\ Len(dbOut.vector.data) = expected_dim => once = dbOut.vector.data

\* search_similar corrected a vector that was too short
C6_Witness ==
    /\ dbOut.fn = "search_similar"
    /\ dbOut.sent.tag = "list"
    /\ Len(dbOut.vector.data) < expected_dim
    /\ Len(dbOut.sent.data) = expected_dim

\* the value a method of the manager returned
StoreCalled == dbOut.fn = "store_vector"

SearchCalled == dbOut.fn = "search_similar"

DeleteCalled == dbOut.fn = "delete_document"

\* C15: the vector store client never raises to its caller: store_vector
\* returns an id or None, search_similar a list, delete_document a boolean;
\* when the manager is not connected they return None, [] and False without
\* calling the collection, and when a collection call raises they return
\* those same values.
C15_ClientNeverRaises ==
    /\ StoreCalled =>
           /\ dbOut.id.tag \in {"str", "None"}
           /\ ~is_connected => (dbOut.id = None /\ dbOut.sent = None)
           /\ (is_connected /\ ~dbOut.insertOk) => dbOut.id = None
    /\ SearchCalled =>
           /\ DOMAIN dbOut.results = 1..Len(dbOut.results)
           /\ ~is_connected =>
                  (dbOut.results = <<>> /\ dbOut.sent = None /\ dbOut.tried = <<>>)
           /\ (is_connected /\ dbOut.sdk = "raises") => dbOut.results = <<>>
    /\ DeleteCalled =>
           /\ dbOut.ok \in BOOLEAN
           /\ ~is_connected => (~dbOut.ok /\ ~dbOut.called)
           /\ (is_connected /\ ~dbOut.deleteOk) => ~dbOut.ok

\* delete_one raised on a connected manager and delete_document returned
\* False, with the stored document still there
C15_Witness ==
    /\ DeleteCalled
    /\ is_connected
    /\ dbOut.called
    /\ ~dbOut.deleteOk
    /\ ~dbOut.ok
    /\ \E k \in 1..Len(collection) : collection[k]._id = dbOut.document_id

\* insert_one raised and store_vector returned None
C15_WitnessInsertRaised ==
    /\ StoreCalled
    /\ is_connected
    /\ ~dbOut.insertOk
    /\ dbOut.id = None
    /\ dbOut.sent # None

\* the results are ordered by non-increasing similarity
SortedBySimilarity ==
    \A k \in 1..(Len(dbOut.results) - 1) :
        SimKey(dbOut.results[k]) >= SimKey(dbOut.results[k + 1])

\* C16: search_similar(vector, limit) returns at most limit records, ordered
\* by non-increasing similarity, for every limit >= 0 and every response
\* shape of the backend, the unfiltered find that returns all documents
\* included.
C16_AtMostLimitSorted ==
    SearchCalled =>
        /\ Len(dbOut.results) <= dbOut.limit
        /\ SortedBySimilarity

\* the unfiltered find returned the one stored document and search_similar
\* returned it for a limit of 0
C16_OneResultIgnoresLimit ==
    /\ SearchCalled
    /\ dbOut.sdk = "find_all"
    /\ dbOut.limit = 0
    /\ Len(collection) = 1
    /\ Len(dbOut.results) = 1

\* what does hold: the results are sorted, and there are at most limit of
\* them unless there is exactly one
C16_WhatHolds ==
    SearchCalled =>
        /\ SortedBySimilarity
        /\ Len(dbOut.results) <= dbOut.limit \/ Len(dbOut.results) = 1
        /\ dbOut.limit >= 1 => Len(dbOut.results) <= dbOut.limit

\* the unfiltered find returned two documents and one came back for limit 1
C16_FindAllCut ==
    /\ SearchCalled
    /\ dbOut.sdk = "find_all"
    /\ dbOut.limit = 1
    /\ Len(collection) = 2
    /\ Len(dbOut.results) = 1

\* C17: search_similar tries the call shapes in a fixed order: vector_search
\* first, find with options only after vector_search raised AttributeError,
\* find with sort and limit only after the options form raised TypeError, the
\* unfiltered find only after that form raised TypeError; no later shape is
\* tried once one succeeded, and any other exception ends the search with an
\* empty list.
C17_ShapesTriedInOrder ==
    (SearchCalled /\ is_connected) =>
        /\ Len(dbOut.tried) >= 1
        /\ \A k \in 1..Len(dbOut.tried) : dbOut.tried[k] = SdkShapes[k]
        /\ "find_options" \in Range(dbOut.tried) =>
               dbOut.surface.vector_search = "AttributeError"
        /\ "find_sort" \in Range(dbOut.tried) =>
               dbOut.surface.find_options = "TypeError"
        /\ "find_all" \in Range(dbOut.tried) =>
               dbOut.surface.find_sort = "TypeError"
        /\ \A k \in 1..(Len(dbOut.tried) - 1) : dbOut.surface[dbOut.tried[k]] # "ok"
        /\ dbOut.surface[dbOut.tried[Len(dbOut.tried)]] # "ok" =>
               dbOut.results = <<>>

\* all four shapes were tried and the unfiltered find answered
C17_Witness ==
    /\ SearchCalled
    /\ is_connected
    /\ dbOut.tried = SdkShapes
    /\ dbOut.surface.find_all = "ok"
    /\ dbOut.results # <<>>

\* vector_search raised TypeError: nothing else was tried, the list is empty
C17_WitnessOtherException ==
    /\ SearchCalled
    /\ is_connected
    /\ Len(collection) >= 1
    /\ dbOut.surface.vector_search = "TypeError"
    /\ dbOut.tried = <<"vector_search">>
    /\ dbOut.results = <<>>

\* the record of the collection a result was made from: same text and
\* timestamp
SourceRows(result) ==
    {j \in 1..Len(collection) :
        /\ collection[j].document.text = result.text
        /\ collection[j].document.timestamp = result.timestamp}

\* C28: a record inserted by store_vector under id X (as {_id, document,
\* vector}) and later returned by search_similar carries _id equal to X,
\* never the placeholder "unknown", for each response shape the search
\* accepts
C28_IdRoundTrip ==
    SearchCalled =>
        \A k \in 1..Len(dbOut.results) :
            /\ dbOut.results[k]._id # UNKNOWN_ID
            /\ \E j \in SourceRows(dbOut.results[k]) :
                   collection[j]._id = dbOut.results[k]._id

\* a stored record came back from one of the find forms, which return the
\* record as it was inserted: its _id is "unknown"
C28_FindLosesId ==
    /\ SearchCalled
    /\ dbOut.sdk \in {"find_options", "find_sort", "find_all"}
    /\ dbOut.results # <<>>
    /\ \A k \in 1..Len(dbOut.results) :
           /\ dbOut.results[k]._id = UNKNOWN_ID
           /\ SourceRows(dbOut.results[k]) # {}

\* what holds: every result comes from a stored record; with the
\* vector_search response shape {document, id, similarity} it carries the id
\* it was stored under, with the find forms it carries "unknown"
C28_WhatHolds ==
    SearchCalled =>
        \A k \in 1..Len(dbOut.results) :
            /\ SourceRows(dbOut.results[k]) # {}
            /\ dbOut.sdk = "vector_search" =>
                   \E j \in SourceRows(dbOut.results[k]) :
                       collection[j]._id = dbOut.results[k]._id
            /\ dbOut.sdk # "vector_search" => dbOut.results[k]._id = UNKNOWN_ID

\* a stored record came back from vector_search under its id
C28_VectorSearchKeepsId ==
    /\ SearchCalled
    /\ dbOut.sdk = "vector_search"
    /\ dbOut.results # <<>>
    /\ \E j \in 1..Len(collection) : collection[j]._id = dbOut.results[1]._id

(***************************************************************************)
(* Claims about process_file                                               *)
(***************************************************************************)
\* process_file was called and has returned
ProcReturned == procOut # NoCall /\ procOut.fn = "process_file"

\* the call was for an existing file (not a URL) whose processing went
\* through the dispatch
ProcFileCall ==
    /\ ProcReturned
    /\ ~is_url(procOut.file.path)
    /\ procOut.file.exists
    /\ ~procOut.file.raises

ContentExtractors ==
    {"describe_image", "extract_text_from_pdf", "extract_text_from_docx",
     "transcribe_audio", "extract_audio_from_video"}

\* the extractor that belongs to a file_type
ExtractorOf(file_type) ==
    CASE file_type = <<"i", "m", "a", "g", "e">> -> "describe_image"
      [] file_type = <<"p", "d", "f">> -> "extract_text_from_pdf"
      [] file_type = <<"d", "o", "c", "x">> -> "extract_text_from_docx"
      [] file_type = <<"a", "u", "d", "i", "o">> -> "transcribe_audio"
      [] file_type = <<"v", "i", "d", "e", "o">> -> "extract_audio_from_video"
      [] OTHER -> "none"

\* the MIME type or the extension of the file is one the dispatch knows
SupportedType(file) ==
    \/ IsImageType(file.mime.s)
    \/ IsPdfType(file.mime.s, file_extension_of(file.path))
    \/ IsDocxType(file.mime.s, file_extension_of(file.path))
    \/ IsAudioType(file.mime.s, file_extension_of(file.path))
    \/ IsVideoType(file.mime.s, file_extension_of(file.path))

\* C7: for an existing file whose MIME type is resolved, process_file invokes
\* exactly one content extractor, the one of the reported file_type, when the
\* type is supported, and none when it is not; never two, whatever the
\* combination of MIME type and extension.
C7_ExactlyOneExtractor ==
    (ProcFileCall /\ Truthy(procOut.file.mime)) =>
        /\ Len(procOut.calls) <= 1
        /\ SupportedType(procOut.file) =>
               /\ Len(procOut.calls) = 1
               /\ procOut.calls[1] \in ContentExtractors
               /\ procOut.calls[1] = ExtractorOf(procOut.result.file_type)
        /\ ~SupportedType(procOut.file) =>
               /\ procOut.calls = <<>>
               /\ procOut.result.file_type = <<"u", "n", "k", "n", "o", "w", "n">>

\* a file whose MIME type says PDF and whose extension says DOCX went to the
\* PDF extractor only
C7_Witness ==
    /\ ProcFileCall
    /\ procOut.file.mime = Str(<<"a", "p", "p", "l", "i", "c", "a", "t", "i", "o", "n", "/", "p", "d", "f">>)
    /\ file_extension_of(procOut.file.path) = <<".", "d", "o", "c", "x">>
    /\ procOut.calls = <<"extract_text_from_pdf">>

\* a file of no supported type went to no extractor
C7_WitnessUnsupported ==
    /\ ProcFileCall
    /\ procOut.file.mime = Str(<<"t", "e", "x", "t", "/", "p", "l", "a", "i", "n">>)
    /\ procOut.calls = <<>>

\* C9: for every input the result of process_file has the keys file_type,
\* text and error.
C9_ResultHasContractKeys ==
    ProcReturned =>
        /\ HasKey(procOut.result, "file_type")
        /\ HasKey(procOut.result, "text")
        /\ HasKey(procOut.result, "error")

\* the result for a path where no file exists
C9_MissingFileResult ==
    /\ ProcReturned
    /\ ~is_url(procOut.file.path)
    /\ ~procOut.file.raises
    /\ ~procOut.file.exists
    /\ DOMAIN procOut.result = {"error", "text", "vector"}

\* every other input does give the three keys
C9_OtherInputsHaveKeys ==
    (ProcReturned /\ ~C9_MissingFileResult) =>
        {"file_type", "text", "error"} \subseteq DOMAIN procOut.result

(***************************************************************************)
(* Claims about download_audio (specification SpecDlFair)                  *)
(***************************************************************************)
DlRunning == dl # NoCall /\ dl.pc # "done"

DlDone == dl # NoCall /\ dl.pc = "done"

\* download_audio makes at most 3 download attempts per call
DlAttemptsBounded == dl # NoCall => Len(dl.log) <= 3

\* the call is over and every download attempt was made and failed
DlAllFailed ==
    /\ DlDone
    /\ Len(dl.log) = 3
    /\ \A k \in 1..Len(dl.log) : dl.log[k] = "raise"

\* after the last failure download_audio gives up with None, and
\* transcribe_youtube_audio returns the message that says so
DlGivesUp ==
    DlAllFailed =>
        /\ dl.audio_path = None
        /\ dl.fn = "transcribe_youtube_audio" =>
               dl.result = Str(<<"F", "a", "i", "l", "e", "d", " ", "t", "o", " ", "d", "o", "w", "n", "l", "o", "a", "d", " ", "a", "u", "d", "i", "o", " ", "f", "r", "o", "m", " ", "Y", "o", "u", "T", "u", "b", "e", " ", "v", "i", "d", "e", "o", ".">>)

\* C10: download_audio makes at most 3 download attempts per call and every
\* call terminates; when every attempt fails it gives up, and
\* transcribe_youtube_audio returns an error string to its caller.
C10_BoundedRetriesThenGiveUp ==
    /\ [](DlAttemptsBounded /\ DlGivesUp)
    /\ DlRunning ~> DlDone

\* transcribe_youtube_audio has returned after three failed attempts
C10_Witness ==
    /\ DlAllFailed
    /\ dl.fn = "transcribe_youtube_audio"
    /\ dl.waits = <<1, 2>>
    /\ dl.result.tag = "str"

(***************************************************************************)
(* Claims about the chat endpoint (specification Spec)                     *)
(***************************************************************************)
\* a request was handled and its response is on its way
\* the headings of the two context sections (routes.py lines 177, 182)
QA_HEADER == <<"S", "i", "m", "i", "l", "a", "r", " ", "q", "u", "e", "s", "t", "i", "o", "n", "s", " ", "a", "n", "d", " ", "a", "n", "s", "w", "e", "r", "s", ":", "\n">>

DOCS_HEADER == <<"C", "o", "n", "t", "e", "x", "t", " ", "f", "r", "o", "m", " ", "s", "i", "m", "i", "l", "a", "r", " ", "d", "o", "c", "u", "m", "e", "n", "t", "s", ":", "\n">>

ChatReturned == chatOut # NoCall /\ chatOut.fn = "chat"

\* the request carried no file
NoFilePosted == ChatReturned /\ IsNone(chatOut.request.upload)

\* the message was a URL that is_youtube_url does not accept, with no file
NonYouTubeUrlPosted ==
    /\ NoFilePosted
    /\ chatOut.request.message.tag = "str"
    /\ is_url(chatOut.request.message.s)
    /\ ~is_youtube_url(chatOut.request.message.s)

\* C1: a message that is a valid URL but not a YouTube URL, posted without a
\* file, is answered with status 400 and an "unsupported URL" error, and no
\* generation call is made for the request.
C1_NonYouTubeUrlRejected ==
    NonYouTubeUrlPosted =>
        /\ chatOut.status = 400
        /\ HasKey(chatOut.body, "error")
        /\ chatOut.generated = <<>>

\* what the handler does with such a message: the text of process_file's
\* "url" result goes into a prompt for the text model, and the generated
\* answer is returned with status 200
C1_NonYouTubeUrlGenerates ==
    NonYouTubeUrlPosted =>
        /\ chatOut.file_info.d.file_type = <<"u", "r", "l">>
        /\ Len(chatOut.generated) = 1
        /\ chatOut.generated[1].model = "text_model"
        /\ Contains(chatOut.generated[1].prompt,
                    <<"U", "n", "s", "u", "p", "p", "o", "r", "t", "e", "d", " ", "U", "R", "L", " ", "t", "y", "p", "e", ":", " ">> \o chatOut.request.message.s)
        /\ chatOut.env.gen.kind = "text" =>
               /\ chatOut.status = 200
               /\ chatOut.body.error = None
               /\ chatOut.body.answer = chatOut.env.gen.text

\* such a request was answered with 200 and generated text
C1_NonYouTubeUrlAnswered ==
    /\ NonYouTubeUrlPosted
    /\ chatOut.status = 200
    /\ chatOut.body.answer = chatOut.env.gen.text
    /\ chatOut.body.answer # <<>>

\* the message was text (not blank, not a URL), with no file
TextOnlyPosted ==
    /\ NoFilePosted
    /\ chatOut.request.message.tag = "str"
    /\ Strip(chatOut.request.message.s) # <<>>
    /\ ~is_url(chatOut.request.message.s)

\* C2: a non-blank message that is not a URL, posted without a file, is
\* answered with status 200, error null and the text the text model returned
\* as the answer, whether the vector store is connected or not.
C2_TextOnlyAnswered ==
    (TextOnlyPosted /\ chatOut.env.gen.kind = "text") =>
        /\ chatOut.status = 200
        /\ chatOut.body.error = None
        /\ chatOut.body.answer = chatOut.env.gen.text
        /\ Len(chatOut.generated) = 1
        /\ chatOut.generated[1].model = "text_model"

\* the question was answered while the vector store was connected, and the
\* Q&A pair was stored
C2_Witness ==
    /\ TextOnlyPosted
    /\ is_connected /\ astra_available /\ ~DISABLE_VECTOR_DB
    /\ chatOut.status = 200
    /\ chatOut.body.answer = <<"2", "+", "2", " ", "i", "s", " ", "4", ".">>
    /\ Len(chatOut.stored) = 1

\* the question was answered while the vector store was not connected
C2_WitnessNotConnected ==
    /\ TextOnlyPosted
    /\ ~is_connected
    /\ chatOut.status = 200
    /\ chatOut.body.answer = <<"2", "+", "2", " ", "i", "s", " ", "4", ".">>
    /\ chatOut.stored = <<>>

\* an allowed file was uploaded and saved, and its content cannot be read
UnreadableUploadPosted ==
    /\ ChatReturned
    /\ ~IsNone(chatOut.request.upload)
    /\ chatOut.request.upload.filename # <<>>
    /\ allowed_file(chatOut.request.upload.filename)
    /\ chatOut.request.upload.saveOk
    /\ ~chatOut.request.upload.readable

\* the response is one the handler built: a status and a JSON body with an
\* answer or an error
HandledResponse ==
    /\ chatOut.status \in {200, 400, 500}
    /\ HasKey(chatOut.body, "answer") \/ HasKey(chatOut.body, "error")

\* C8: when the content of an uploaded file cannot be extracted, process_file
\* returns a result whose text (or error) holds the message of the exception,
\* and the chat endpoint answers with a response it built; when the text
\* model answers, a document that could not be read is answered with 200.
C8_ExtractionErrorIsReturned ==
    UnreadableUploadPosted =>
        /\ chatOut.file_info.tag = "dict"
        /\ \/ /\ Truthy(chatOut.file_info.d.text)
              /\ Contains(chatOut.file_info.d.text.s, chatOut.request.upload.msg)
           \/ /\ Truthy(chatOut.file_info.d.error)
              /\ Contains(chatOut.file_info.d.error.s, chatOut.request.upload.msg)
        /\ HandledResponse
        /\ (chatOut.file_info.d.file_type # <<"i", "m", "a", "g", "e">>
               /\ chatOut.env.gen.kind = "text") => chatOut.status = 200

\* a PDF whose content cannot be read was uploaded: the result of
\* process_file holds the message, and the request was answered with 200
C8_Witness ==
    /\ UnreadableUploadPosted
    /\ chatOut.file_info.d.file_type = <<"p", "d", "f">>
    /\ chatOut.file_info.d.text =
           Str(<<"[", "E", "r", "r", "o", "r", " ", "e", "x", "t", "r", "a", "c", "t", "i", "n", "g", " ", "t", "e", "x", "t", " ", "f", "r", "o", "m", " ", "P", "D", "F", ":", " ">> \o MSG_BROKEN \o <<"]">>)
    /\ chatOut.file_info.d.error = None
    /\ chatOut.status = 200

\* the vector store is connected, enabled, and accepts the inserts of this
\* request
StoreAccepts ==
    /\ is_connected
    /\ astra_available
    /\ ~DISABLE_VECTOR_DB
    /\ chatOut.env.insertOk

\* the request was answered with 200 and an answer
Answered == ChatReturned /\ chatOut.status = 200 /\ HasKey(chatOut.body, "answer")

\* the turn was an uploaded PDF, DOCX, audio file or image, a YouTube URL, or
\* a text-only question
TurnWithText ==
    /\ Answered
    /\ \/ /\ ~IsNone(chatOut.request.upload)
          /\ chatOut.file_info.tag = "dict"
          /\ chatOut.file_info.d.file_type \in {<<"p", "d", "f">>, <<"d", "o", "c", "x">>, <<"a", "u", "d", "i", "o">>, <<"i", "m", "a", "g", "e">>}
       \/ /\ NoFilePosted
          /\ is_youtube_url(chatOut.request.message.s)
          /\ ~chatOut.env.yt.raises
       \/ TextOnlyPosted

\* the records written by this request are in the collection
StoredRecordsKept ==
    \A k \in 1..Len(chatOut.stored) :
        \E j \in 1..Len(collection) : collection[j]._id = chatOut.stored[k]

\* C13: every chat turn that produces extractable text (an uploaded PDF,
\* DOCX, audio file or image, a YouTube URL, or a text-only question and
\* answer) writes at least one new record to the vector store, provided the
\* store is connected and accepts inserts.
C13_TurnWritesRecord ==
    (TurnWithText /\ StoreAccepts) =>
        /\ Len(chatOut.stored) >= 1
        /\ StoredRecordsKept

\* an image was answered by the vision model and nothing was written
C13_ImageTurnWritesNothing ==
    /\ TurnWithText
    /\ StoreAccepts
    /\ chatOut.file_info.tag = "dict"
    /\ chatOut.file_info.d.file_type = <<"i", "m", "a", "g", "e">>
    /\ chatOut.generated[1].model = "vision_model"
    /\ chatOut.stored = <<>>

\* every such turn but an image does write a record
C13_OtherTurnsWriteRecord ==
    (TurnWithText /\ StoreAccepts
        /\ ~(chatOut.file_info.tag = "dict" /\ chatOut.file_info.d.file_type = <<"i", "m", "a", "g", "e">>)) =>
        /\ Len(chatOut.stored) >= 1
        /\ StoredRecordsKept

\* a document turn wrote the document and the Q&A pair
C13_DocumentTurnWritesTwo ==
    /\ TurnWithText
    /\ StoreAccepts
    /\ chatOut.file_info.tag = "dict"
    /\ chatOut.file_info.d.file_type = <<"p", "d", "f">>
    /\ Len(chatOut.stored) = 2

RecordTypes ==
    {<<"p", "d", "f">>, <<"d", "o", "c", "x">>, <<"a", "u", "d", "i", "o">>, <<"i", "m", "a", "g", "e">>, <<"y", "o", "u", "t", "u", "b", "e">>, <<"q", "a", "_", "p", "a", "i", "r">>, <<"d", "i", "r", "e", "c", "t", "_", "q", "u", "e", "r", "y">>}

\* the types of the records in the collection
StoredTypes == {collection[k].document.type : k \in 1..Len(collection)}

\* C14: after any sequence of chat requests every record the chat endpoint
\* wrote to the vector store has a type that is one of pdf, docx, audio,
\* image, youtube, qa_pair, direct_query.
C14_RecordTypeIsKnown == StoredTypes \subseteq RecordTypes

\* an uploaded video was answered and written with the type "video"
C14_VideoRecordWritten ==
    /\ Answered
    /\ chatOut.file_info.tag = "dict"
    /\ chatOut.file_info.d.file_type = <<"v", "i", "d", "e", "o">>
    /\ Len(chatOut.stored) = 2
    /\ <<"v", "i", "d", "e", "o">> \in StoredTypes

\* the types that are written: the file types that get a vector, youtube and
\* qa_pair
C14_TypesWritten ==
    StoredTypes \subseteq {<<"p", "d", "f">>, <<"d", "o", "c", "x">>, <<"a", "u", "d", "i", "o">>, <<"v", "i", "d", "e", "o">>, <<"y", "o", "u", "t", "u", "b", "e">>, <<"q", "a", "_", "p", "a", "i", "r">>}

\* a file came with the request (an upload with a file name)
FilePosted ==
    /\ ChatReturned
    /\ ~IsNone(chatOut.request.upload)
    /\ chatOut.request.upload.filename # <<>>

\* a request the handler can answer: a text message that is not blank when no
\* file comes with it, a file that was saved and is of a type process_file
\* reads, and a generative model that answers
Answerable ==
    /\ ChatReturned
    /\ chatOut.request.message.tag = "str"
    /\ chatOut.env.gen.kind = "text"
    /\ IF FilePosted
       THEN /\ allowed_file(chatOut.request.upload.filename)
            /\ chatOut.request.upload.saveOk
            /\ chatOut.file_info.tag = "dict"
            /\ chatOut.file_info.d.file_type
                   \in {<<"p", "d", "f">>, <<"d", "o", "c", "x">>, <<"a", "u", "d", "i", "o">>, <<"v", "i", "d", "e", "o">>, <<"i", "m", "a", "g", "e">>}
       ELSE Strip(chatOut.request.message.s) # <<>>

\* what failed while the request was handled
ExtractionFailed == FilePosted /\ ~chatOut.request.upload.readable

EmbeddingFailed == ~chatOut.env.vec.loadOk \/ ~chatOut.env.vec.encOk

StoreInUse == is_connected /\ astra_available /\ ~DISABLE_VECTOR_DB

SearchFailed == StoreInUse /\ chatOut.env.sdk = "raises"

StoreWriteFailed == StoreInUse /\ ~chatOut.env.insertOk

PipelineFailed ==
    ExtractionFailed \/ EmbeddingFailed \/ SearchFailed \/ StoreWriteFailed

\* the request reached the generation and was answered with what it gave
AnsweredByGeneration ==
    /\ chatOut.status = 200
    /\ Len(chatOut.generated) = 1
    /\ chatOut.body.answer = chatOut.env.gen.text

\* C20: a failure of the extraction, the embedding, the vector search or the
\* vector store write never fails a chat request: the request still reaches
\* the generation call and is answered with status 200 and the generated
\* answer
C20_PipelineFailureNeverFails ==
    (Answerable /\ PipelineFailed) => AnsweredByGeneration

\* an image that cannot be read was uploaded: describe_image put its message
\* in the text, and the request was answered with 500 before any generation
C20_UnreadableImageFails ==
    /\ Answerable
    /\ ExtractionFailed
    /\ chatOut.file_info.d.file_type = <<"i", "m", "a", "g", "e">>
    /\ Contains(chatOut.file_info.d.text.s, <<"[", "E", "r", "r", "o", "r", " ", "a", "n", "a", "l", "y", "z", "i", "n", "g", " ", "i", "m", "a", "g", "e", ":", " ">>)
    /\ chatOut.status = 500
    /\ chatOut.generated = <<>>

\* what holds: every such failure leaves the request answered by the
\* generation, except the one of an uploaded image that cannot be opened
C20_WhatHolds ==
    (Answerable /\ PipelineFailed
        /\ ~(ExtractionFailed /\ chatOut.file_info.d.file_type = <<"i", "m", "a", "g", "e">>))
        => AnsweredByGeneration

\* a document was answered while embedding and search failed
C20_EmbeddingAndSearchFailed ==
    /\ Answerable
    /\ FilePosted
    /\ EmbeddingFailed
    /\ SearchFailed
    /\ AnsweredByGeneration

\* a question was answered while the store refused the write
C20_StoreWriteFailed ==
    /\ Answerable
    /\ StoreWriteFailed
    /\ chatOut.stored = <<>>
    /\ AnsweredByGeneration

\* an exception was raised while the request was handled: the message was
\* not a string, the upload could not be saved, the uploaded image could not
\* be opened, or the generation
\* call of the handler raised or returned a response whose text cannot be
\* read
GenerationRaised ==
    /\ chatOut.generated # <<>>
    /\ chatOut.generated[Len(chatOut.generated)].name
           \in {"vision_model_generate", "text_model_with_file", "text_model_only"}
    /\ chatOut.env.gen.kind \in {"raises", "blocked"}

ImageNotOpened ==
    /\ FilePosted
    /\ chatOut.file_info.tag = "dict"
    /\ chatOut.file_info.d.file_type = <<"i", "m", "a", "g", "e">>
    /\ chatOut.file_info.d.error = None
    /\ ~chatOut.request.upload.opens

\* file.save raised in handle_uploaded_file
SaveRaised ==
    /\ FilePosted
    /\ chatOut.request.message.tag = "str"
    /\ allowed_file(chatOut.request.upload.filename)
    /\ ~chatOut.request.upload.saveOk

ExceptionRaised ==
    \/ chatOut.request.message.tag # "str"
    \/ SaveRaised
    \/ GenerationRaised
    \/ ImageNotOpened

\* C21: no exception escapes the chat handler: every request ends with status
\* 200, 400 or 500, and an exception raised while handling it (one raised by
\* the generation call included) gives status 500 with a JSON body that
\* carries error, the message of the exception, and traceback
C21_ExceptionBecomes500 ==
    ChatReturned =>
        /\ chatOut.status \in {200, 400, 500}
        /\ ExceptionRaised <=> chatOut.status = 500
        /\ chatOut.status = 500 =>
               /\ DOMAIN chatOut.body = {"error", "traceback"}
               /\ chatOut.body.error.tag = "str"
               /\ chatOut.body.traceback.tag = "str"
               /\ Contains(chatOut.body.traceback.s, chatOut.body.error.s)
               /\ GenerationRaised => chatOut.body.error.s = chatOut.env.gen.msg

\* the generation call raised and the request was answered with 500
C21_Witness ==
    /\ ChatReturned
    /\ GenerationRaised
    /\ chatOut.env.gen.kind = "raises"
    /\ chatOut.status = 500
    /\ HasKey(chatOut.body, "traceback")

\* a message that is not a string was answered with 500
C21_WitnessBadMessage ==
    /\ ChatReturned
    /\ chatOut.request.message.tag # "str"
    /\ chatOut.status = 500

\* the Q&A records this turn wrote
TurnQaRecords ==
    {j \in 1..Len(collection) :
        /\ \E k \in 1..Len(chatOut.stored) : collection[j]._id = chatOut.stored[k]
        /\ collection[j].document.type = <<"q", "a", "_", "p", "a", "i", "r">>}

\* C27: the question saved in a Q&A record by a chat turn equals the message
\* the user submitted; it does not include the retrieved context (similar
\* questions and answers, document snippets) the handler appended to the
\* prompt
C27_StoredQuestionIsMessage ==
    (ChatReturned /\ chatOut.request.message.tag = "str") =>
        \A j \in TurnQaRecords :
            /\ collection[j].document.question = chatOut.request.message.s
            /\ ~Contains(collection[j].document.question, QA_HEADER)
            /\ ~Contains(collection[j].document.question, DOCS_HEADER)

\* a question asked a second time: the Q&A pair of the first turn was
\* retrieved and the question stored by the second turn holds it
C27_ContextStoredAsQuestion ==
    /\ ChatReturned
    /\ chatOut.request.message = Str(QUESTION)
    /\ chatOut.status = 200
    /\ chatOut.body.similar_content # <<>>
    /\ \E j \in TurnQaRecords :
           /\ StartsWith(collection[j].document.question, QUESTION \o <<"\n", "\n">> \o QA_HEADER)
           /\ Len(collection[j].document.question) > Len(QUESTION)

\* what holds: the stored question is the prompt given to the text model; it
\* is the submitted message whenever the search found nothing, and begins
\* with it otherwise
C27_WhatHolds ==
    (ChatReturned /\ chatOut.request.message.tag = "str") =>
        \A j \in TurnQaRecords :
            /\ StartsWith(collection[j].document.question, chatOut.request.message.s)
            /\ chatOut.body.similar_content = <<>> =>
                   collection[j].document.question = chatOut.request.message.s
            /\ collection[j].document.source_type = <<"d", "i", "r", "e", "c", "t", "_", "q", "u", "e", "r", "y">> =>
                   collection[j].document.question
                       = chatOut.generated[Len(chatOut.generated)].prompt

\* a first question, with nothing to retrieve, is stored as it was asked
C27_FirstTurnStored ==
    /\ ChatReturned
    /\ chatOut.request.message = Str(QUESTION)
    /\ chatOut.status = 200
    /\ chatOut.body.similar_content = <<>>
    /\ \E j \in TurnQaRecords : collection[j].document.question = QUESTION

\* no file came with the request and the message is empty or only whitespace
BlankMessagePosted ==
    /\ ChatReturned
    /\ ~FilePosted
    /\ chatOut.request.message.tag = "str"
    /\ Strip(chatOut.request.message.s) = <<>>

\* C29: a chat request with no file and an empty or whitespace-only message
\* returns 400 with the error "No message provided" and has no side effect:
\* no generation call, no vector search and no vector store write
C29_BlankMessageRefused ==
    BlankMessagePosted =>
        /\ chatOut.status = 400
        /\ chatOut.body = [error |-> Str(<<"N", "o", " ", "m", "e", "s", "s", "a", "g", "e", " ", "p", "r", "o", "v", "i", "d", "e", "d">>)]
        /\ chatOut.generated = <<>>
        /\ chatOut.searched = <<>>
        /\ chatOut.stored = <<>>
        /\ IsNone(chatOut.file_info)

\* a message of one space was refused while the vector store was connected
C29_Witness ==
    /\ BlankMessagePosted
    /\ chatOut.request.message.s = <<" ">>
    /\ astra_available
    /\ ~DISABLE_VECTOR_DB
    /\ chatOut.status = 400

\* an empty message was refused
C29_WitnessEmpty ==
    /\ BlankMessagePosted
    /\ chatOut.request.message.s = <<>>
    /\ chatOut.status = 400

(***************************************************************************)
(* Claims about get_youtube_transcript (specification SpecProc)            *)
(***************************************************************************)
\* process_file was called with a YouTube URL and returned what
\* get_youtube_transcript gave
YtCall ==
    /\ ProcReturned
    /\ is_url(procOut.file.path)
    /\ is_youtube_url(procOut.file.path)
    /\ imports.youtube
    /\ ~procOut.yt.raises

YtText == procOut.result.text.s

\* the text shows that transcribe_youtube_audio was called
TranscriptAttempted ==
    \/ Contains(YtText, <<"T", "r", "a", "n", "s", "c", "r", "i", "p", "t", ":", "\n">>)
    \/ Contains(YtText, <<"T", "r", "a", "n", "s", "c", "r", "i", "p", "t", "i", "o", "n", " ", "f", "a", "i", "l", "e", "d", ":", " ">>)

\* the text shows a transcript
TranscriptSucceeded == Contains(YtText, <<"T", "r", "a", "n", "s", "c", "r", "i", "p", "t", ":", "\n">> \o procOut.yt.transcript)

\* the metadata could not be retrieved: all of it, or some attributes
MetadataFailed ==
    \/ ~procOut.yt.ctorOk
    \/ ~procOut.yt.titleOk
    \/ ~procOut.yt.viewsOk

\* the text shows the attributes that were retrieved
MetadataShown ==
    /\ StartsWith(YtText, <<"Y", "o", "u", "T", "u", "b", "e", " ", "V", "i", "d", "e", "o", " ", "I", "n", "f", "o", "r", "m", "a", "t", "i", "o", "n", ":", "\n">>)
    /\ procOut.yt.titleOk => Contains(YtText, <<"T", "i", "t", "l", "e", ":", " ">> \o procOut.yt.title \o <<"\n">>)
    /\ procOut.yt.authorOk =>
           Contains(YtText, <<"A", "u", "t", "h", "o", "r", ":", " ">> \o procOut.yt.author \o <<"\n">>)
    /\ Contains(YtText, <<"V", "i", "d", "e", "o", " ", "I", "D", ":", " ", "d", "Q", "w", "4", "w", "9", "W", "g", "X", "c", "Q", "\n">>)

\* C11: the metadata and the transcript are independent in
\* get_youtube_transcript: when the metadata could not be retrieved the
\* transcript is attempted all the same (where the speech library is
\* installed), and when the transcript failed the metadata retrieved is still
\* in the returned text.
C11_MetadataAndTranscriptIndependent ==
    YtCall =>
        /\ (MetadataFailed /\ procOut.yt.sr_available) => TranscriptAttempted
        /\ (procOut.yt.ctorOk /\ ~TranscriptSucceeded) => MetadataShown

\* the video could not be opened and the transcript was not attempted
C11_MetadataFailureSkipsTranscript ==
    /\ YtCall
    /\ ~procOut.yt.ctorOk
    /\ procOut.yt.sr_available
    /\ ~TranscriptAttempted
    /\ Contains(YtText, <<"\n", "T", "r", "a", "n", "s", "c", "r", "i", "p", "t", "i", "o", "n", " ", "n", "o", "t", " ", "a", "t", "t", "e", "m", "p", "t", "e", "d", " ", "d", "u", "e", " ", "t", "o", " ", "e", "r", "r", "o", "r", " ", "a", "c", "c", "e", "s", "s", "i", "n", "g", " ", "v", "i", "d", "e", "o", ".", "\n">>)

\* what does hold: attributes that fail one by one do not stop the
\* transcript, a video that cannot be opened does, and a failed transcript
\* leaves the metadata in the text
C11_WhatHolds ==
    YtCall =>
        /\ (procOut.yt.ctorOk /\ procOut.yt.sr_available) => TranscriptAttempted
        /\ ~procOut.yt.ctorOk => ~TranscriptAttempted
        /\ (procOut.yt.ctorOk /\ ~TranscriptSucceeded) => MetadataShown

\* the title and the views failed and the transcript is in the text
C11_PartialMetadataWithTranscript ==
    /\ YtCall
    /\ ~procOut.yt.titleOk
    /\ TranscriptSucceeded
    /\ Contains(YtText, <<"T", "i", "t", "l", "e", ":", " ", "[", "T", "i", "t", "l", "e", " ", "u", "n", "a", "v", "a", "i", "l", "a", "b", "l", "e", "]", "\n">>)

\* the transcription did not succeed
TranscriptionUnsuccessful == YtCall /\ ~TranscriptSucceeded

\* the video has a description
HasDescription ==
    procOut.yt.ctorOk /\ procOut.yt.descOk /\ procOut.yt.description # <<>>

FALLBACK_NOTE ==
    <<"\n", "U", "s", "i", "n", "g", " ", "v", "i", "d", "e", "o", " ", "d", "e", "s", "c", "r", "i", "p", "t", "i", "o", "n", " ", "a", "s", " ", "a", " ", "f", "a", "l", "l", "b", "a", "c", "k", " ", "s", "i", "n", "c", "e", " ", "t", "r", "a", "n", "s", "c", "r", "i", "p", "t", "i", "o", "n", " ", "w", "a", "s", " ", "n", "o", "t", " ", "a", "v", "a", "i", "l", "a", "b", "l", "e", ":", "\n", "\n">>

C12_WitnessNotAvailable ==
    /\ TranscriptionUnsuccessful
    /\ HasDescription
    /\ ~procOut.yt.sr_available
    /\ Contains(YtText, FALLBACK_NOTE \o procOut.yt.description)

(***************************************************************************)
(* Claims about the prompt assembly (specification SpecPrompt)             *)
(***************************************************************************)
Enhanced == chatOut # NoCall /\ chatOut.fn = "enhance"

Usable(doc) == HasKey(doc, "_id") /\ HasKey(doc, "text")

InGroup(doc, group) == \E k \in 1..Len(group) : group[k] = doc

\* what a record would say in the prompt: its text, question and answer
Says(doc) == {doc[k] : k \in DOMAIN doc \cap {"text", "question", "answer"}}

\* C18: when the prompt is assembled, every retrieved record that has both
\* _id and text is in exactly one of the two groups (Q&A pairs, other
\* documents), a record lacking either field is in neither group, is not
\* listed and leaves nothing in the prompt, and the prompt begins with the
\* user message, has the Q&A section next and the other-documents section
\* after it
C18_PromptAssembly ==
    Enhanced =>
        /\ Len(chatOut.qa_pairs) + Len(chatOut.other_docs)
               = Cardinality({k \in 1..Len(chatOut.similar_docs) :
                                 Usable(chatOut.similar_docs[k])})
        /\ \A k \in 1..Len(chatOut.similar_docs) :
               \E doc \in {chatOut.similar_docs[k]} :
                   IF Usable(doc)
                   THEN InGroup(doc, chatOut.qa_pairs)
                            # InGroup(doc, chatOut.other_docs)
                   ELSE /\ ~InGroup(doc, chatOut.qa_pairs)
                        /\ ~InGroup(doc, chatOut.other_docs)
                        /\ \A t \in Says(doc) : ~Contains(chatOut.prompt, t)
        /\ Len(chatOut.similar_content) = Len(chatOut.qa_pairs) + Len(chatOut.other_docs)
        /\ StartsWith(chatOut.prompt, chatOut.message)
        /\ chatOut.qa_pairs # <<>> =>
               /\ Find(chatOut.prompt, QA_HEADER)
                      = IF chatOut.message # <<>> THEN Len(chatOut.message) + 2
                        ELSE Len(<<"P", "l", "e", "a", "s", "e", " ", "a", "n", "a", "l", "y", "z", "e", " ", "t", "h", "i", "s", " ", "c", "o", "n", "t", "e", "n", "t", ":", "\n", "\n">>)
               /\ \A k \in 1..Len(chatOut.qa_pairs) :
                      Find(chatOut.prompt, <<"Q", ":", " ">> \o Get(chatOut.qa_pairs[k], "question", <<>>))
                          > Find(chatOut.prompt, QA_HEADER)
        /\ chatOut.other_docs # <<>> =>
               /\ Contains(chatOut.prompt, DOCS_HEADER)
               /\ Find(chatOut.prompt, DOCS_HEADER) >= Len(chatOut.message)
               /\ chatOut.qa_pairs # <<>> =>
                      /\ Find(chatOut.prompt, DOCS_HEADER) > Find(chatOut.prompt, QA_HEADER)
                      /\ \A k \in 1..Len(chatOut.qa_pairs) :
                             RFind(chatOut.prompt, <<"\n", "A", ":", " ">> \o Get(chatOut.qa_pairs[k], "answer", <<>>))
                                 < Find(chatOut.prompt, DOCS_HEADER)
               /\ \A k \in 1..Len(chatOut.other_docs) :
                      RFind(chatOut.prompt, Slice(chatOut.other_docs[k].text, 0, SnippetCut))
                          > Find(chatOut.prompt, DOCS_HEADER)
        /\ (chatOut.qa_pairs = <<>> /\ chatOut.other_docs = <<>>) =>
               chatOut.prompt = chatOut.message

\* a message, a Q&A pair and a document are assembled into one prompt
C18_Witness ==
    /\ Enhanced
    /\ chatOut.message = QUESTION
    /\ Len(chatOut.qa_pairs) = 1
    /\ Len(chatOut.other_docs) = 1

\* a record without text is retrieved next to a usable one
C18_WitnessRecordDropped ==
    /\ Enhanced
    /\ Len(chatOut.similar_docs) = 2
    /\ ~Usable(chatOut.similar_docs[1])
    /\ Len(chatOut.qa_pairs) + Len(chatOut.other_docs) = 1

(***************************************************************************)
(* Claims about LangSmithMonitor.trace (specification SpecTrace)           *)
(***************************************************************************)
Traced == chatOut # NoCall /\ chatOut.fn = "trace"

\* C19: the traced function is invoked exactly once and the caller of the
\* wrapper observes what a direct call gives (the same return value or the
\* same exception), whether the monitor is unconfigured, connected, or
\* connected with a failing run submission, and an unconfigured monitor
\* submits no run
C19_TracingIsTransparent ==
    Traced =>
        /\ chatOut.invoked = 1
        /\ chatOut.observed = chatOut.direct
        /\ ~langsmith_connected => chatOut.submitted = 0

\* a connected monitor wraps a function that returns a response whose text
\* cannot be read: the wrapper raises where the function returned
C19_BlockedResponseRaises ==
    /\ Traced
    /\ langsmith_connected
    /\ chatOut.direct.kind = "blocked"
    /\ chatOut.observed.kind = "raises"
    /\ chatOut.invoked = 1

\* what holds: one invocation always; the same outcome without a monitor,
\* and with one whenever the function raises or returns a response whose
\* text can be read, the submission failing or not; no run without a monitor
\* and at most one run with one
C19_WhatHolds ==
    Traced =>
        /\ chatOut.invoked = 1
        /\ (~langsmith_connected \/ chatOut.direct.kind # "blocked") =>
               chatOut.observed = chatOut.direct
        /\ ~langsmith_connected => chatOut.submitted = 0
        /\ chatOut.submitted = IF langsmith_connected /\ chatOut.logOk THEN 1 ELSE 0

\* the submission fails and the caller still gets the answer
C19_FailingSubmission ==
    /\ Traced
    /\ langsmith_connected
    /\ ~chatOut.logOk
    /\ chatOut.direct.kind = "text"
    /\ chatOut.observed = chatOut.direct
    /\ chatOut.submitted = 0

(***************************************************************************)
(* Claims about create_app and /api/ask (specification SpecApp)            *)
(***************************************************************************)
AppCreated == chatOut # NoCall /\ chatOut.fn = "create_app"

\* neither the environment nor a secret file holds a key
NoKeyAvailable ==
    /\ ~Truthy(chatOut.env.GOOGLE_API_KEY)
    /\ \A i \in 1..2 :
           \/ IsNone(chatOut.env.secrets[i])
           \/ Strip(chatOut.env.secrets[i].s) = <<>>

\* RENDER or RENDER_SERVICE_ID is set (to a value that is not empty)
HostingVariableSet ==
    Truthy(chatOut.env.RENDER) \/ Truthy(chatOut.env.RENDER_SERVICE_ID)

\* C22: with no key in the environment or the secret files and no
\* hosting-platform variable (RENDER, RENDER_SERVICE_ID) set, create_app
\* fails with an error; with such a variable set it starts with the embedded
\* fallback key instead, the chat blueprint is not registered and the vector
\* store is flagged disabled
C22_MissingKeyAtStartup ==
    (AppCreated /\ NoKeyAvailable) =>
        IF HostingVariableSet
        THEN /\ ~chatOut.raised
             /\ chatOut.app.api_key = FALLBACK_KEY
             /\ "main" \notin chatOut.app.blueprints
             /\ "DISABLE_VECTOR_DB" \in chatOut.app.config
             /\ DISABLE_VECTOR_DB
        ELSE /\ chatOut.raised
             /\ IsNone(chatOut.app)
             /\ chatOut.error = <<"G", "O", "O", "G", "L", "E", "_", "A", "P", "I", "_", "K", "E", "Y", " ", "e", "n", "v", "i", "r", "o", "n", "m", "e", "n", "t", " ", "v", "a", "r", "i", "a", "b", "l", "e", " ", "n", "o", "t", " ", "s", "e", "t">>
             /\ ~DISABLE_VECTOR_DB

\* no key, RENDER set, the blueprint could have been registered: the app
\* started with the fallback key
C22_Witness ==
    /\ AppCreated
    /\ NoKeyAvailable
    /\ Truthy(chatOut.env.RENDER)
    /\ chatOut.env.blueprintOk
    /\ ~chatOut.raised
    /\ chatOut.app.api_key = FALLBACK_KEY

\* no key and no hosting variable: create_app raised
C22_WitnessFails ==
    /\ AppCreated
    /\ NoKeyAvailable
    /\ ~HostingVariableSet
    /\ chatOut.raised

Asked == chatOut # NoCall /\ chatOut.fn = "api_ask"

\* the body is a JSON object
JsonObjectPosted == Asked /\ chatOut.request.tag = "dict"

\* the question of the posted object, "" when it has none
PostedQuestion == Get(chatOut.request.d, "question", Str(<<>>))

\* C23: POST /api/ask with a JSON body whose question is not empty returns a
\* body with answer equal to the text of the generator; with a missing or
\* empty question it returns 400 without calling the generator; any
\* exception (a body that is not JSON included) returns 500 with an error
\* field
C23_ApiAsk ==
    Asked =>
        /\ (JsonObjectPosted /\ Truthy(PostedQuestion) /\ chatOut.gen.kind = "text") =>
               /\ chatOut.status = 200
               /\ chatOut.body.answer = Str(chatOut.gen.text)
               /\ chatOut.generated = <<PostedQuestion>>
        /\ (JsonObjectPosted /\ PostedQuestion = Str(<<>>)) =>
               /\ chatOut.status = 400
               /\ HasKey(chatOut.body, "error")
               /\ chatOut.generated = <<>>
        /\ (~JsonObjectPosted
               \/ (Truthy(PostedQuestion) /\ chatOut.gen.kind # "text")) =>
               /\ chatOut.status = 500
               /\ DOMAIN chatOut.body = {"error"}
               /\ chatOut.body.error.s # <<>>

\* a question was answered with the text of the generator
C23_Witness ==
    /\ JsonObjectPosted
    /\ PostedQuestion = Str(QUESTION)
    /\ chatOut.status = 200
    /\ chatOut.body.answer.s # <<>>

\* an empty question was refused, a body that is not JSON gave 500
C23_WitnessRefused ==
    /\ JsonObjectPosted
    /\ HasKey(chatOut.request.d, "question")
    /\ PostedQuestion = Str(<<>>)
    /\ chatOut.status = 400

C23_WitnessNotJson ==
    /\ Asked
    /\ chatOut.request.tag = "notjson"
    /\ chatOut.status = 500

(***************************************************************************)
(* Claims about is_youtube_url (specification SpecUrl)                     *)
(***************************************************************************)
UrlChecked == procOut # NoCall /\ procOut.fn = "is_youtube_url"

\* the URL is a watch, short or embed URL of a YouTube host with a video id
IsVideoUrl == procOut.host \in YouTubeHosts /\ procOut.path \in VideoPaths

\* C24: is_youtube_url accepts https://www.youtube.com/watch?v=dQw4w9WgXcQ
\* and https://youtu.be/dQw4w9WgXcQ, rejects https://example.com/video, and
\* accepts a URL only when it matches a YouTube watch, short or embed pattern
\* carrying a video id
C24_AcceptsOnlyVideoUrls ==
    UrlChecked =>
        /\ procOut.url \in {URL_WATCH, URL_SHORT} => procOut.result
        /\ procOut.url = URL_OTHER => ~procOut.result
        /\ procOut.result => IsVideoUrl

\* a page of youtube.com that is no video is accepted: the eleven characters
\* after the slash are taken for the id
C24_FeedPageAccepted ==
    /\ UrlChecked
    /\ procOut.url = <<"h", "t", "t", "p", "s", ":", "/", "/", "w", "w", "w", ".", "y", "o", "u", "t", "u", "b", "e", ".", "c", "o", "m", "/", "f", "e", "e", "d", "/", "s", "u", "b", "s", "c", "r", "i", "p", "t", "i", "o", "n", "s">>
    /\ procOut.result

\* what holds: the three URLs of the claim are judged as it says, every
\* watch, short and embed URL of a YouTube host is accepted, and a URL is
\* accepted only when its host is a YouTube host and at least eleven
\* characters without & = % ? follow the slash or a ?v=
C24_WhatHolds ==
    UrlChecked =>
        /\ procOut.url \in {URL_WATCH, URL_SHORT} => procOut.result
        /\ procOut.url = URL_OTHER => ~procOut.result
        /\ IsVideoUrl => procOut.result
        /\ procOut.result =>
               /\ procOut.host \in YouTubeHosts
               /\ procOut.path \in VideoPaths \cup {<<"/", "f", "e", "e", "d", "/", "s", "u", "b", "s", "c", "r", "i", "p", "t", "i", "o", "n", "s">>}

\* the two URLs of the claim were accepted, the third rejected
C24_WatchAccepted == UrlChecked /\ procOut.url = URL_WATCH /\ procOut.result

C24_ShortAccepted == UrlChecked /\ procOut.url = URL_SHORT /\ procOut.result

C24_OtherRejected == UrlChecked /\ procOut.url = URL_OTHER /\ ~procOut.result

(***************************************************************************)
(* Claims about the waits of download_audio (specification SpecDl)         *)
(***************************************************************************)
\* download_audio is running or has returned, with at least one attempt made
Downloading == dl # NoCall /\ dl.log # <<>>

\* C25: in download_audio the wait doubles with each attempt that raised:
\* after attempt k (from 0) raised it sleeps 2^k seconds before attempt k+1,
\* 1 s then 2 s with the default 3 attempts; it does not sleep after the last
\* attempt raised, and an attempt that succeeds returns the path at once,
\* with no further attempt or wait
C25_BackoffDoubles ==
    Downloading =>
        /\ dl.waits = [k \in 1..Len(dl.waits) |-> 2 ^ (k - 1)]
        /\ Len(dl.waits) = dl.attempt
        /\ Len(dl.waits) <= max_retries - 1
        /\ Len(dl.log) = dl.attempt + (IF dl.pc = "attempt" THEN 0 ELSE 1)
        /\ \A k \in 1..(Len(dl.log) - 1) : dl.log[k] = "raise"
        /\ dl.pc = "sleep" =>
               /\ dl.log[Len(dl.log)] = "raise"
               /\ dl.attempt < max_retries - 1
               /\ dl.wait_time = 2 ^ dl.attempt
        /\ (dl.pc \in {"returned", "done"} /\ dl.log[Len(dl.log)] = "raise") =>
               /\ Len(dl.log) = max_retries
               /\ dl.waits = <<1, 2>>
               /\ dl.wait_time = 0
               /\ IsNone(dl.audio_path)
        /\ (dl.pc \in {"returned", "done"} /\ dl.log[Len(dl.log)] = "ok") =>
               /\ dl.audio_path = Str(TempAudioPath(dl.url))
               /\ Len(dl.waits) = Len(dl.log) - 1
               /\ dl.wait_time = 0

\* two attempts raised, the third succeeded: it slept 1 s and 2 s and
\* returned the path
C25_Witness ==
    /\ Downloading
    /\ dl.fn = "download_audio"
    /\ dl.pc = "done"
    /\ dl.log = <<"raise", "raise", "ok">>
    /\ dl.waits = <<1, 2>>
    /\ dl.result = dl.audio_path
    /\ ~IsNone(dl.result)

\* three attempts raised: no sleep after the last one
C25_WitnessGaveUp ==
    /\ Downloading
    /\ dl.pc = "returned"
    /\ dl.log = <<"raise", "raise", "raise">>
    /\ dl.waits = <<1, 2>>

(***************************************************************************)
(* Claims about get_sentence_model under concurrency (specification        *)
(* SpecSingleton)                                                          *)
(***************************************************************************)
SingletonRun == vecOut # NoCall /\ vecOut.fn = "get_sentence_model"

\* C26: the embedding model is a lazily initialised singleton: it is
\* constructed at most once per process after a successful load and every
\* call that returns a model returns the same instance, also when the first
\* calls arrive concurrently from several request threads
C26_ConstructedAtMostOnce ==
    SingletonRun =>
        /\ vecOut.constructed <= 1
        /\ Cardinality(vecOut.returned \ {"None"}) <= 1

\* two threads passed the test of line 59 before either assigned the global:
\* two models were constructed and the calls returned different instances
C26_TwoInstances ==
    /\ SingletonRun
    /\ vecOut.overlapped
    /\ vecOut.constructed = 2
    /\ vecOut.returned = {Instance(1), Instance(2)}

\* what holds: as long as no call starts while another is running, a model is
\* constructed at most once and every call that returns a model returns
\* that instance; in every run, a call made after a load has succeeded and
\* been assigned constructs nothing
C26_WhatHolds ==
    SingletonRun =>
        /\ ~vecOut.overlapped =>
               /\ vecOut.constructed <= 1
               /\ vecOut.returned \subseteq {"None", Instance(1)}
        /\ vecOut.constructed >= 1 <=> sentence_model # "None"
        /\ vecOut.constructed <= MaxThreads

\* calls one after the other: the first load failed, a later one succeeded,
\* and the model was constructed once
C26_Sequential ==
    /\ SingletonRun
    /\ ~vecOut.overlapped
    /\ vecOut.returned = {"None", Instance(1)}
    /\ vecOut.constructed = 1
    /\ \A t \in Threads : vecOut.pc[t] = "done"

(***************************************************************************)
(* Claims about LLMMonitor (specification SpecMonitor)                     *)
(***************************************************************************)
SummaryTaken == monitor # NoCall /\ monitor.out.fn = "get_metrics_summary"

MonitoredCallMade == monitor # NoCall /\ monitor.out.fn = "monitor"

\* the history follows the calls: the entries loaded plus one for each call
\* that returned
HistoryCounts ==
    monitor # NoCall =>
        Len(monitor.metrics_history) = monitor.loaded + monitor.returned

\* a monitored call that raises appends no entry and its exception reaches
\* the caller; one that returns appends one entry
CallsAppend ==
    MonitoredCallMade =>
        /\ monitor.out.invoked = 1
        /\ monitor.out.raised <=> monitor.out.call.kind = "raises"
               \/ (monitor.out.call.kind = "output_raises" /\ monitor.track_outputs)
        /\ monitor.out.appended = IF monitor.out.raised THEN 0 ELSE 1

\* C30 as stated: after any sequence of monitored calls the total_requests
\* reported by get_metrics_summary equals the number of entries loaded at
\* construction plus the number of monitored calls that returned; a call that
\* raises appends no entry and its exception reaches the caller
C30_TotalRequests ==
    /\ HistoryCounts
    /\ CallsAppend
    /\ SummaryTaken =>
           /\ HasKey(monitor.out.summary, "total_requests")
           /\ monitor.out.summary.total_requests = monitor.loaded + monitor.returned

\* C30, amended: the same whenever at least one entry was loaded or one call
\* has returned; with no entry loaded and no call returned the summary
\* has no total_requests and holds only the message "No metrics collected
\* yet"
C30_TotalRequestsWhenAny ==
    /\ HistoryCounts
    /\ CallsAppend
    /\ SummaryTaken =>
           IF monitor.loaded + monitor.returned > 0
           THEN /\ HasKey(monitor.out.summary, "total_requests")
                /\ monitor.out.summary.total_requests
                       = monitor.loaded + monitor.returned
           ELSE monitor.out.summary = [message |-> <<"N", "o", " ", "m", "e", "t", "r", "i", "c", "s", " ", "c", "o", "l", "l", "e", "c", "t", "e", "d", " ", "y", "e", "t">>]

\* entries were loaded, one call returned and one raised, and the summary
\* was taken
C30_Witness ==
    /\ SummaryTaken
    /\ monitor.loaded = 2
    /\ monitor.returned = 1
    /\ monitor.raised = 1
    /\ monitor.out.summary.total_requests = 3

\* nothing was loaded, the only call raised: the summary reports no
\* total_requests
C30_WitnessNothingCollected ==
    /\ SummaryTaken
    /\ monitor.loaded = 0
    /\ monitor.returned = 0
    /\ monitor.raised = 1
    /\ ~HasKey(monitor.out.summary, "total_requests")

====
